---- MODULE Spec2Model ----
(***************************************************************************)
(* MedGraph AI: the five-agent pipeline of MedicalRecordsWorkflow.query    *)
(* (router, retriever, context_builder, citation, answer) and the          *)
(* ranking / scoring / sorting logic of each agent.                        *)
(*                                                                         *)
(* Numbers.  Confidences are real numbers in the code; here they are       *)
(* integers counted in ticks of 1/1200, the common denominator of          *)
(* hundredths (distances, 0.85, 0.1, 0.15) and of month/12 * 0.1.          *)
(* Texts the code scans (the generated answer) are sequences of            *)
(* one-character strings; a fixed literal that is never scanned is one     *)
(* token of such a sequence.                                               *)
(***************************************************************************)
EXTENDS Integers, Sequences, FiniteSets, TLC

VARIABLES
    pc,                 \* position of the running query in the graph
    question,           \* state['question']: the key terms its lowercase form contains
    patient_id,         \* state['patient_id'] ("" models None / the empty string)
    max_sources,        \* state['max_sources']
    router_result,      \* state['router_result']
    vector_results,     \* what search_records_vector returned to retrieve
    patient_records,    \* what get_patient_records returned to retrieve
    results,            \* retrieve's local list just before the final sort
    retrieved_records,  \* state['retrieved_records']
    context,            \* state['context']
    citations,          \* state['citations']
    final_answer,       \* state['final_answer']
    agents_used,        \* state['agents_used']
    llm_calls,          \* generation calls made so far, per agent
    generation,         \* what the answer agent's generation call did
    response,           \* the dictionary query returned
    raised,             \* the exception that left query, "" if none
    router_generation,  \* what the router's generation call did
    returned,           \* what a method called on its own returned
    requests            \* the state of each of the invocations that run concurrently

vars == <<pc, question, patient_id, max_sources, router_result, vector_results,
          patient_records, results, retrieved_records,
          context, citations, final_answer, agents_used, llm_calls,
          generation, response, raised, router_generation, returned, requests>>

(* The variables of the single running query *)
pipeline_vars == <<pc, question, patient_id, max_sources, router_result, vector_results,
                   patient_records, results, retrieved_records,
                   context, citations, final_answer, agents_used, llm_calls,
                   generation, response, raised, router_generation, returned>>

----------------------------------------------------------------------------
(* Bounds of the model *)

MaxHits == 2        \* hits the vector backend reports for one search
MaxSources == 2     \* largest max_sources (top_k) a query asks for
MaxRecords == 3     \* longest list of records handed to one agent called on its own
NumRequests == 2    \* invocations of query that run concurrently

----------------------------------------------------------------------------
(* Units *)

Tick == 12                  \* ticks per hundredth
One == 100 * Tick           \* 1.0 in ticks

Hundredths(h) == h * Tick

Max(a, b) == IF a >= b THEN a ELSE b
Min(a, b) == IF a <= b THEN a ELSE b

----------------------------------------------------------------------------
(* The record corpus: the rows of table medical_records, in the column     *)
(* order of init_sqlite (id, patient_id, patient_name, date, record_type,  *)
(* description, medication, diagnosis, lab_result, doctor).  Python's      *)
(* record[k] is row[k+1] here.  load_data puts the same rows into the      *)
(* vector collection.  A NULL column is "".                                *)

medical_records ==
    << <<1, "P001", "John Doe", "2024-07-18", "visit", "Annual physical",
         "Lisinopril 10mg daily", "Hypertension Stage 1", "", "Dr. Smith">>,
       <<2, "P001", "John Doe", "2024-07-18", "lab", "Lipid panel",
         "", "", "LDL 130", "Dr. Smith">>,
       <<3, "P001", "John Doe", "2024-03-10", "visit", "Follow-up",
         "Lisinopril 10mg daily", "Hypertension Stage 1", "", "Dr. Smith">>,
       <<4, "P001", "John Doe", "2023-11-05", "visit", "Initial visit",
         "None", "Hypertension Stage 1", "", "Dr. Lee">>,
       <<5, "P002", "Jane Roe", "2024-xx-01", "lab", "Glucose test",
         "Metformin 500mg", "Type 2 Diabetes", "HbA1c 7.2", "Dr. Lee">> >>

RowIds == 1..Len(medical_records)

(* Distances the vector backend may report, in hundredths: a negative one, *)
(* one that ties with the patient_filter confidence, one larger than 1.    *)
Distances == {-50, 15, 150}

(* Patient filters a query may carry; "" is no filter. *)
PatientFilters == {"", "P001", "P002"}

(* Questions, each given by the key terms its lowercase form contains. *)
Questions == { {}, {"medication"}, {"medication", "diagnosis", "lab"} }

----------------------------------------------------------------------------
(* Dates.  A date is the string the record carries; split_dash is          *)
(* date.split('-') and int_of is int(token) on the tokens that occur,      *)
(* NotInt standing for the ValueError int() raises.                        *)

NotInt == -1

split_dash(date) ==
    CASE date = "2024-07-18" -> <<"2024", "07", "18">>
      [] date = "2024-03-10" -> <<"2024", "03", "10">>
      [] date = "2023-11-05" -> <<"2023", "11", "05">>
      [] date = "2024-xx-01" -> <<"2024", "xx", "01">>
      [] OTHER -> <<date>>

int_of(token) ==
    CASE token = "2024" -> 2024
      [] token = "2023" -> 2023
      [] token = "01" -> 1
      [] token = "03" -> 3
      [] token = "05" -> 5
      [] token = "07" -> 7
      [] token = "10" -> 10
      [] token = "11" -> 11
      [] token = "18" -> 18
      [] OTHER -> NotInt

(* '2024' in date: none of the dates has '2024' across a '-'; the date    *)
(* without a '-' begins with it.                                           *)
contains_2024(date) ==
    \/ date = "20240718"
    \/ \E i \in DOMAIN split_dash(date) : split_dash(date)[i] = "2024"

(* datetime.strptime(date, '%Y-%m-%d') succeeds. *)
strptime_ok(date) ==
    LET f == split_dash(date) IN
    /\ Len(f) = 3
    /\ int_of(f[1]) # NotInt
    /\ int_of(f[2]) \in 1..12
    /\ int_of(f[3]) \in 1..28

(* The datetime strptime returns, as an integer that orders like it. *)
strptime(date) ==
    LET f == split_dash(date) IN
    int_of(f[1]) * 10000 + int_of(f[2]) * 100 + int_of(f[3])

----------------------------------------------------------------------------
(* Small sequence helpers *)

Range(s) == {s[i] : i \in DOMAIN s}

(* s[:n] of Python, for n >= 0 *)
Prefix(s, n) == SubSeq(s, 1, Min(n, Len(s)))

(* The sequences over S without repetition, of length at most n *)
InjectiveSeqs(S, n) ==
    UNION {{s \in [1..k -> S] : \A i, j \in 1..k : i # j => s[i] # s[j]} : k \in 0..n}

(* Python's sorted(s, key=lambda x: x['confidence'], reverse=True): a      *)
(* stable sort, elements of equal confidence keep their order in s.        *)
insert_by_confidence(t, x) ==
    LET k == Cardinality({i \in DOMAIN t : t[i].confidence >= x.confidence})
    IN SubSeq(t, 1, k) \o <<x>> \o SubSeq(t, k + 1, Len(t))

sorted_by_confidence(s) ==
    LET F[i \in 0..Len(s)] ==
            IF i = 0 THEN <<>> ELSE insert_by_confidence(F[i - 1], s[i])
    IN F[Len(s)]

----------------------------------------------------------------------------
(* Record store adapter (app/database/db.py, data/load_data.py) *)

py(record, k) == record[k + 1]          \* Python's record[k] on a row

or_else(x, default) == IF x = "" THEN default ELSE x     \* Python's x or default

(* The text order of the date column, for ORDER BY date DESC. *)
DateTextOrder == <<"2023-11-05", "2024-03-10", "2024-07-18", "2024-xx-01">>

date_text_rank(date) == CHOOSE i \in DOMAIN DateTextOrder : DateTextOrder[i] = date

(* get_patient_records: the patient's rows, ORDER BY date DESC.  SQL leaves *)
(* the order of rows of equal date open: every such order is a result.     *)
get_patient_records(pid) ==
    LET ids == {k \in RowIds : py(medical_records[k], 1) = pid} IN
    {[i \in DOMAIN s |-> medical_records[s[i]]] :
        s \in {t \in InjectiveSeqs(ids, Cardinality(ids)) :
                 /\ Len(t) = Cardinality(ids)
                 /\ \A i, j \in DOMAIN t : i < j =>
                       date_text_rank(py(medical_records[t[i]], 3))
                         >= date_text_rank(py(medical_records[t[j]], 3))}}

(* The document and the metadata load_csv_to_chromadb stores for a row. *)
chroma_id(k) == <<"record", k - 1>>

chroma_document(k) ==
    LET row == medical_records[k] IN
    [Type |-> py(row, 4), Description |-> py(row, 5), Diagnosis |-> py(row, 7),
     Medication |-> py(row, 6), Doctor |-> py(row, 9)]

chroma_metadata(k) ==
    LET row == medical_records[k] IN
    [patient_id |-> py(row, 1), patient_name |-> py(row, 2), date |-> py(row, 3),
     record_type |-> py(row, 4), diagnosis |-> py(row, 7), medication |-> py(row, 6)]

(* search_records_vector(question, top_k): None when the backend raises    *)
(* (ok = FALSE), else at most top_k hits, distinct documents, each with    *)
(* the distance the backend reports, or hits and no 'distances' key at all *)
(* (distances = FALSE).                                                    *)
search_records_vector(top_k) ==
    {[ok |-> FALSE, distances |-> FALSE, hits |-> <<>>]} \cup
    UNION {{[ok |-> TRUE, distances |-> TRUE,
             hits |-> [i \in DOMAIN s |-> [row |-> s[i], distance |-> d[i]]]] :
                d \in [DOMAIN s -> Distances]} :
           s \in InjectiveSeqs(RowIds, Min(MaxHits, top_k))} \cup
    {[ok |-> TRUE, distances |-> FALSE, hits |-> [i \in DOMAIN s |-> [row |-> s[i]]]] :
           s \in InjectiveSeqs(RowIds, Min(MaxHits, top_k)) \ {<<>>}}

----------------------------------------------------------------------------
(* Agent 2: RetrievalAgent (app/agents/retriever.py) *)

PatientFilterConfidence == 85       \* 0.85, in hundredths

(* _format_record(record): the labelled lines of the text *)
format_record(record) ==
    [Type        |-> py(record, 4),
     Description |-> or_else(py(record, 5), "N/A"),
     Diagnosis   |-> or_else(py(record, 6), "N/A"),
     Medication  |-> or_else(py(record, 7), "N/A"),
     Doctor      |-> py(record, 9)]

(* The record retrieve builds from one vector hit (lines 62-76). *)
vector_record(hit) ==
    LET metadata == chroma_metadata(hit.row) IN
    [source_id     |-> chroma_id(hit.row),
     text          |-> chroma_document(hit.row),
     patient_id    |-> metadata.patient_id,
     patient_name  |-> metadata.patient_name,
     date          |-> metadata.date,
     record_type   |-> metadata.record_type,
     diagnosis     |-> metadata.diagnosis,
     medication    |-> metadata.medication,
     confidence    |-> Max(0, One - Hundredths(hit.distance)),
     search_method |-> "vector"]

(* The record retrieve builds from one row of the patient's history        *)
(* (lines 85-96). *)
patient_filter_record(record) ==
    [source_id     |-> <<"sqlite", py(record, 0)>>,
     text          |-> format_record(record),
     patient_id    |-> py(record, 1),
     patient_name  |-> py(record, 2),
     date          |-> py(record, 3),
     record_type   |-> py(record, 4),
     diagnosis     |-> or_else(py(record, 6), ""),
     medication    |-> or_else(py(record, 5), ""),
     confidence    |-> Hundredths(PatientFilterConfidence),
     search_method |-> "patient_filter"]

(* Mutant: the vector hits are kept whatever patient they belong to *)
vector_part_unfiltered(vr, pid) ==
    IF ~vr.ok \/ vr.hits = <<>> THEN <<>>
    ELSE LET distance(hit) == IF vr.distances THEN hit.distance ELSE 0
         IN [i \in DOMAIN vr.hits |->
                vector_record([row |-> vr.hits[i].row, distance |-> distance(vr.hits[i])])]

(* Method 1 (lines 53-76): the hits in order, those of another patient     *)
(* skipped when a filter is given; nothing when the search returned None.  *)
(* The distance of a hit is 0 when the results have no 'distances' key.    *)
vector_part(vr, pid) ==
    IF ~vr.ok \/ vr.hits = <<>> THEN <<>>
    ELSE LET keep(hit) == ~(pid # "" /\ chroma_metadata(hit.row).patient_id # pid)
             kept == SelectSeq(vr.hits, keep)
             distance(hit) == IF vr.distances THEN hit.distance ELSE 0
         IN [i \in DOMAIN kept |->
                vector_record([row |-> kept[i].row, distance |-> distance(kept[i])])]

(* Mutant: the check compares source ids, which never match a vector hit *)
already_in_results_by_source_id(res, record) ==
    \E i \in DOMAIN res : res[i].source_id = <<"sqlite", py(record, 0)>>

(* "Check if already in results" (line 84) *)
already_in_results(res, record) ==
    \E i \in DOMAIN res : res[i].patient_id = py(record, 1) /\ res[i].date = py(record, 3)

(* Mutant: the whole history is walked, not its first three rows *)
patient_part_whole_history(res, rows) ==
    LET F[i \in 0..Len(rows)] ==
            IF i = 0 THEN res
            ELSE IF already_in_results(F[i - 1], rows[i]) THEN F[i - 1]
                 ELSE Append(F[i - 1], patient_filter_record(rows[i]))
    IN F[Len(rows)]

(* Method 2 (lines 79-96): the first three rows of the history, each added *)
(* unless a record of the same patient and date is already in results.     *)
patient_part(res, rows) ==
    LET top == Prefix(rows, 3)
        F[i \in 0..Len(top)] ==
            IF i = 0 THEN res
            ELSE IF already_in_results(F[i - 1], top[i]) THEN F[i - 1]
                 ELSE Append(F[i - 1], patient_filter_record(top[i]))
    IN F[Len(top)]

(* Mutant: the limit is taken before the sort *)
limit_and_sort(res, top_k) == sorted_by_confidence(Prefix(res, top_k))

(* Lines 98-99: sort by confidence and limit to top_k *)
sort_and_limit(res, top_k) == Prefix(sorted_by_confidence(res), top_k)

(* retrieve, given what the two backends did (lines 47-105): the empty     *)
(* list when the history lookup raised, else the merged list sorted and    *)
(* cut to top_k.                                                           *)
retrieve(vr, pr, pid, top_k) ==
    IF pr.status = "error" THEN <<>>
    ELSE IF pr.status = "ok"
         THEN sort_and_limit(patient_part(vector_part(vr, pid), pr.rows), top_k)
         ELSE sort_and_limit(vector_part(vr, pid), top_k)

----------------------------------------------------------------------------
(* Agent 3: ContextBuilderAgent (app/agents/context_builder.py) *)

(* sorted(records, key=strptime(date), reverse=True): stable *)
insert_by_date(t, x) ==
    LET k == Cardinality({i \in DOMAIN t : strptime(t[i].date) >= strptime(x.date)})
    IN SubSeq(t, 1, k) \o <<x>> \o SubSeq(t, k + 1, Len(t))

(* Mutant: reverse=True is missing, the order is oldest first *)
sort_by_date_ascending(records) ==
    IF \A i \in DOMAIN records : strptime_ok(records[i].date)
    THEN LET insert(t, x) ==
                 LET k == Cardinality({i \in DOMAIN t :
                                          strptime(t[i].date) <= strptime(x.date)})
                 IN SubSeq(t, 1, k) \o <<x>> \o SubSeq(t, k + 1, Len(t))
             F[i \in 0..Len(records)] ==
                 IF i = 0 THEN <<>> ELSE insert(F[i - 1], records[i])
         IN F[Len(records)]
    ELSE records

(* Mutant: sorted oldest first and then reversed, which reverses the       *)
(* records of equal date                                                   *)
sort_by_date_reversing_ties(records) ==
    IF \A i \in DOMAIN records : strptime_ok(records[i].date)
    THEN LET insert(t, x) ==
                 LET k == Cardinality({i \in DOMAIN t :
                                          strptime(t[i].date) > strptime(x.date)})
                 IN SubSeq(t, 1, k) \o <<x>> \o SubSeq(t, k + 1, Len(t))
             F[i \in 0..Len(records)] ==
                 IF i = 0 THEN <<>> ELSE insert(F[i - 1], records[i])
         IN F[Len(records)]
    ELSE records

(* _sort_by_date: the key of every record is computed before any order is  *)
(* changed; one strptime that raises is caught and the input is returned.  *)
sort_by_date(records) ==
    IF \A i \in DOMAIN records : strptime_ok(records[i].date)
    THEN LET F[i \in 0..Len(records)] ==
                 IF i = 0 THEN <<>> ELSE insert_by_date(F[i - 1], records[i])
         IN F[Len(records)]
    ELSE records

(* A key finding: the fixed words of the f-string (label), and what it     *)
(* interpolates: a set of values joined in set order, two dates, a count.  *)
Finding(label, items, from, to, n) ==
    [label |-> label, items |-> items, from |-> from, to |-> to, n |-> n]

lower_is_none(value) == value \in {"none", "None", "NONE", "n/a", "N/A", ""}

(* value.strip() on the field values that occur: those of the corpus      *)
(* have no white space around them, two values of the records handed to   *)
(* the builder on its own have.                                           *)
strip_value(value) ==
    CASE value = " N/A " -> "N/A"
      [] value = "Hypertension Stage 1 " -> "Hypertension Stage 1"
      [] OTHER -> value

(* Mutant: 'none' and 'n/a' are listed like any other value *)
distinct_values_keeping_none(records, field) ==
    {strip_value(records[i][field]) : i \in {j \in DOMAIN records :
        strip_value(records[j][field]) # ""}}

distinct_values(records, field) ==
    {strip_value(records[i][field]) : i \in {j \in DOMAIN records :
        strip_value(records[j][field]) # ""
        /\ ~lower_is_none(strip_value(records[j][field]))}}

patient_names(records) == {records[i].patient_name : i \in DOMAIN records}

(* _extract_key_findings *)
extract_key_findings(records, category) ==
    LET meds  == distinct_values(records, "medication")
        diags == distinct_values(records, "diagnosis")
        labs  == Cardinality({i \in DOMAIN records : records[i].record_type = "lab"})
        specific ==
            CASE category = "MEDICATION" ->
                    IF meds # {} THEN <<Finding("Medications found", meds, "", "", 0)>>
                    ELSE <<>>
              [] category = "DIAGNOSIS" ->
                    IF diags # {} THEN <<Finding("Diagnoses found", diags, "", "", 0)>>
                    ELSE <<>>
              [] category = "TIMELINE" ->
                    IF records # <<>>
                    THEN <<Finding("Records span from", {}, records[Len(records)].date,
                                   records[1].date, 0),
                           Finding("Total visits/records", {}, "", "", Len(records))>>
                    ELSE <<>>
              [] category = "LAB_RESULTS" ->
                    IF labs > 0 THEN <<Finding("Found lab result(s)", {}, "", "", labs)>>
                    ELSE <<>>
              [] OTHER -> <<>>
        patients == patient_names(records)
        general ==
            IF Cardinality(patients) = 1
            THEN Finding("All records for patient", patients, "", "", 0)
            ELSE Finding("Records from patient(s)", {}, "", "", Cardinality(patients))
    IN Append(specific, general)

(* _create_summary *)
create_summary(records) ==
    LET patients == patient_names(records) IN
    [text     |-> "Found",
     n        |-> Len(records),
     patients |-> patients,
     from     |-> IF records # <<>> THEN records[Len(records)].date ELSE "",
     to       |-> IF records # <<>> THEN records[1].date ELSE ""]

(* _group_by_patient *)
group_by_patient(records) ==
    [p \in {records[i].patient_id : i \in DOMAIN records} |->
        SelectSeq(records, LAMBDA r : r.patient_id = p)]

NoRecordsSummary ==
    [text |-> "No relevant records found.", n |-> 0, patients |-> {},
     from |-> "", to |-> ""]

(* Mutant: no early return for an empty candidate list *)
build_context_unguarded(retrieved, category) ==
    LET sorted_records == sort_by_date(retrieved) IN
    [context_summary |-> create_summary(sorted_records),
     total_records   |-> Len(sorted_records),
     records         |-> sorted_records,
     key_findings    |-> extract_key_findings(sorted_records, category),
     patient_groups  |-> group_by_patient(sorted_records),
     category        |-> category]

(* Mutant: one record is kept per date *)
build_context_one_per_date(retrieved, category) ==
    IF retrieved = <<>>
    THEN [context_summary |-> NoRecordsSummary,
          total_records   |-> 0,
          records         |-> <<>>,
          key_findings    |-> <<>>,
          patient_groups  |-> <<>>,
          category        |-> ""]
    ELSE LET sorted_all == sort_by_date(retrieved)
             first(i) == \A j \in 1..(i - 1) : sorted_all[j].date # sorted_all[i].date
             kept == {i \in DOMAIN sorted_all : first(i)}
             nth(k) == CHOOSE i \in kept : Cardinality({j \in kept : j <= i}) = k
             sorted_records == [k \in 1..Cardinality(kept) |-> sorted_all[nth(k)]]
         IN
         [context_summary |-> create_summary(sorted_records),
          total_records   |-> Len(sorted_records),
          records         |-> sorted_records,
          key_findings    |-> extract_key_findings(sorted_records, category),
          patient_groups  |-> group_by_patient(sorted_records),
          category        |-> category]

(* Mutant: the key findings are taken from the list as it was given *)
build_context_findings_unsorted(retrieved, category) ==
    IF retrieved = <<>>
    THEN [context_summary |-> NoRecordsSummary,
          total_records   |-> 0,
          records         |-> <<>>,
          key_findings    |-> <<>>,
          patient_groups  |-> <<>>,
          category        |-> ""]
    ELSE LET sorted_records == sort_by_date(retrieved) IN
         [context_summary |-> create_summary(sorted_records),
          total_records   |-> Len(sorted_records),
          records         |-> sorted_records,
          key_findings    |-> extract_key_findings(retrieved, category),
          patient_groups  |-> group_by_patient(sorted_records),
          category        |-> category]

(* build_context; a key the returned dictionary lacks is <<>> / "" here *)
build_context(retrieved, category) ==
    IF retrieved = <<>>
    THEN [context_summary |-> NoRecordsSummary,
          total_records   |-> 0,
          records         |-> <<>>,
          key_findings    |-> <<>>,
          patient_groups  |-> <<>>,
          category        |-> ""]
    ELSE LET sorted_records == sort_by_date(retrieved) IN
         [context_summary |-> create_summary(sorted_records),
          total_records   |-> Len(sorted_records),
          records         |-> sorted_records,
          key_findings    |-> extract_key_findings(sorted_records, category),
          patient_groups  |-> group_by_patient(sorted_records),
          category        |-> category]

----------------------------------------------------------------------------
(* Agent 4: CitationAgent (app/agents/citation.py) *)

MedicationBoost == 10           \* 0.1
DiagnosisBoost == 10            \* 0.1
LabBoost == 15                  \* 0.15
MonthsPerYear == 12             \* (month / 12) * 0.1
DefaultConfidence == 70         \* record.get('confidence', 0.7)

(* re.split(r'[.!?]\s+', full_text).  In the texts of the corpus the only  *)
(* terminal punctuation followed by white space is the "Dr. " of the       *)
(* Doctor line: part 1 is the text up to "Dr", part 2 the doctor's name.   *)
split_sentences(text) ==
    <<[part |-> 1, of |-> text], [part |-> 2, of |-> text]>>

(* The key terms the lowercase sentence contains: part 1 holds the labels  *)
(* "Diagnosis:", "Medication:" and "Lab Results:", the record type and the *)
(* description; a doctor's name holds none.                                *)
sentence_terms(sentence) ==
    IF sentence.part = 2 THEN {}
    ELSE {"medication", "diagnosis", "lab", "result"}
         \cup (IF sentence.of.Type = "visit" THEN {"visit"} ELSE {})
         \cup (IF sentence.of.Description = "Glucose test" THEN {"test"} ELSE {})

(* _extract_relevant_snippet: at most two relevant sentences, else the     *)
(* 'Description:' line (every text of the corpus has one).                 *)
extract_relevant_snippet(record, q) ==
    LET sentences == split_sentences(record.text)
        relevant  == SelectSeq(sentences, LAMBDA st : q \cap sentence_terms(st) # {})
    IN IF relevant # <<>>
       THEN [sentences |-> Prefix(relevant, 2), description |-> ""]
       ELSE [sentences |-> <<>>, description |-> record.text.Description]

(* The int(date.split('-')[1]) of the recency boost raises ValueError. *)
calculate_confidence_raises(record) ==
    /\ contains_2024(record.date)
    /\ Len(split_dash(record.date)) > 1
    /\ int_of(split_dash(record.date)[2]) = NotInt

(* Mutant: the sum is not capped at 1.0 *)
calculate_confidence_uncapped(record, q) ==
    record.confidence
      + (IF "medication" \in q /\ record.medication # ""
         THEN Hundredths(MedicationBoost) ELSE 0)
      + (IF "diagnosis" \in q /\ record.diagnosis # ""
         THEN Hundredths(DiagnosisBoost) ELSE 0)
      + (IF "lab" \in q /\ record.record_type = "lab"
         THEN Hundredths(LabBoost) ELSE 0)
      + (IF contains_2024(record.date)
         THEN (int_of(split_dash(record.date)[2]) * Hundredths(10)) \div MonthsPerYear
         ELSE 0)

(* Mutant: the medication boost does not look at the record *)
calculate_confidence_question_only(record, q) ==
    LET base_confidence == IF "confidence" \in DOMAIN record THEN record.confidence
                           ELSE Hundredths(DefaultConfidence)
        relevance_boost ==
            (IF "medication" \in q
             THEN Hundredths(MedicationBoost) ELSE 0)
          + (IF "diagnosis" \in q /\ record.diagnosis # ""
             THEN Hundredths(DiagnosisBoost) ELSE 0)
          + (IF "lab" \in q /\ record.record_type = "lab"
             THEN Hundredths(LabBoost) ELSE 0)
        month == IF Len(split_dash(record.date)) > 1
                 THEN int_of(split_dash(record.date)[2]) ELSE 1
        recency_boost ==
            IF contains_2024(record.date)
            THEN (month * Hundredths(10)) \div MonthsPerYear
            ELSE 0
    IN Min(One, base_confidence + relevance_boost + recency_boost)

(* _calculate_confidence, in ticks; defined when it does not raise.        *)
(* record.get('confidence', 0.7): a record is a function of its keys.      *)
calculate_confidence(record, q) ==
    LET base_confidence == IF "confidence" \in DOMAIN record THEN record.confidence
                           ELSE Hundredths(DefaultConfidence)
        relevance_boost ==
            (IF "medication" \in q /\ record.medication # ""
             THEN Hundredths(MedicationBoost) ELSE 0)
          + (IF "diagnosis" \in q /\ record.diagnosis # ""
             THEN Hundredths(DiagnosisBoost) ELSE 0)
          + (IF "lab" \in q /\ record.record_type = "lab"
             THEN Hundredths(LabBoost) ELSE 0)
        month == IF Len(split_dash(record.date)) > 1
                 THEN int_of(split_dash(record.date)[2]) ELSE 1
        recency_boost ==
            IF contains_2024(record.date)
            THEN (month * Hundredths(10)) \div MonthsPerYear
            ELSE 0
    IN Min(One, base_confidence + relevance_boost + recency_boost)

(* round(confidence, 2), back in ticks.  A sum that lies exactly between   *)
(* two hundredths is not exact in binary floating point: FloatTiesDown     *)
(* lists the sums of this corpus that Python rounds down, the others go up. *)
FloatTiesDown == {150, 510, 1170}

round_2(t) ==
    LET q == t \div Tick
        r == t % Tick
    IN IF 2 * r > Tick \/ (2 * r = Tick /\ t \notin FloatTiesDown)
       THEN (q + 1) * Tick ELSE q * Tick

(* _build_citation *)
build_citation(record, q) ==
    [source_id    |-> record.source_id,
     patient_id   |-> record.patient_id,
     patient_name |-> record.patient_name,
     date         |-> record.date,
     record_type  |-> record.record_type,
     text         |-> extract_relevant_snippet(record, q),
     confidence   |-> round_2(calculate_confidence(record, q))]

(* create_citations raises when _calculate_confidence does for a record *)
create_citations_raises(records) ==
    \E i \in DOMAIN records : calculate_confidence_raises(records[i])

(* Mutant: sorted ascending and then reversed, which reverses the ties *)
create_citations_reversed(q, records) ==
    LET built == [i \in DOMAIN records |-> build_citation(records[i], q)]
        insert(t, x) ==
            LET k == Cardinality({i \in DOMAIN t : t[i].confidence > x.confidence})
            IN SubSeq(t, 1, k) \o <<x>> \o SubSeq(t, k + 1, Len(t))
        F[i \in 0..Len(built)] == IF i = 0 THEN <<>> ELSE insert(F[i - 1], built[i])
    IN F[Len(built)]

(* create_citations: one citation per record, then sorted by confidence *)
create_citations(q, records) ==
    sorted_by_confidence([i \in DOMAIN records |-> build_citation(records[i], q)])

----------------------------------------------------------------------------
(* Agent 5: AnswerAgent (app/agents/answer.py).  A generated text is a     *)
(* sequence of one-character strings.                                      *)

Whitespace == {" ", "\n", "\t"}
Terminal == {".", "!", "?"}

LowerLetters == <<"a","b","c","d","e","f","g","h","i","j","k","l","m",
                  "n","o","p","q","r","s","t","u","v","w","x","y","z">>
UpperLetters == <<"A","B","C","D","E","F","G","H","I","J","K","L","M",
                  "N","O","P","Q","R","S","T","U","V","W","X","Y","Z">>

islower(c) == c \in Range(LowerLetters)
upper(c) ==
    IF islower(c)
    THEN UpperLetters[CHOOSE i \in DOMAIN LowerLetters : LowerLetters[i] = c]
    ELSE c

(* str.strip() *)
strip(s) ==
    LET inked == {i \in DOMAIN s : s[i] \notin Whitespace} IN
    IF inked = {} THEN <<>>
    ELSE SubSeq(s, CHOOSE i \in inked : \A j \in inked : i <= j,
                   CHOOSE i \in inked : \A j \in inked : i >= j)

(* str.replace(old, ""): every occurrence, left to right *)
RECURSIVE remove_all(_, _)
remove_all(s, old) ==
    IF Len(s) < Len(old) THEN s
    ELSE IF SubSeq(s, 1, Len(old)) = old
         THEN remove_all(SubSeq(s, Len(old) + 1, Len(s)), old)
         ELSE <<Head(s)>> \o remove_all(Tail(s), old)

ArtifactAnswer == <<"A","n","s","w","e","r",":">>
ArtifactEvidence == <<"B","a","s","e","d"," ","o","n"," ","t","h","e"," ",
                      "e","v","i","d","e","n","c","e",":">>

(* max(answer.rfind('.'), answer.rfind('!'), answer.rfind('?')): the       *)
(* Python index of the last terminal mark, -1 when there is none.          *)
last_period(s) ==
    LET marks == {i \in DOMAIN s : s[i] \in Terminal} IN
    IF marks = {} THEN -1 ELSE (CHOOSE i \in marks : \A j \in marks : i >= j) - 1

(* _clean_answer *)
clean_answer(answer) ==
    LET a1 == strip(answer)
        a2 == strip(remove_all(a1, ArtifactAnswer))
        a3 == strip(remove_all(a2, ArtifactEvidence))
        a4 == IF a3 # <<>> /\ islower(a3[1])
              THEN <<upper(a3[1])>> \o Tail(a3) ELSE a3
    IN IF a4 # <<>> /\ a4[Len(a4)] \notin Terminal
          /\ 2 * last_period(a4) > Len(a4)
       THEN SubSeq(a4, 1, last_period(a4) + 1)
       ELSE a4

RefusalSentence ==
    <<"I couldn't find any relevant information in the medical records to answer this question.">>

(* f"Error generating answer: {str(e)}" *)
ErrorAnswer(e) == <<"Error generating answer: ">> \o e

(* Texts the generation call of the answer agent may return. *)
Generations ==
    { <<"A","n","s","w","e","r",":"," ","o","k",".">>,
      <<" ","I","t"," ","i","s"," ","s","o","."," ","N","o">>,
      <<"y","e","s","."," ","B","u","t"," ","n","o","t">>,
      <<" ","\n">> }

(* Mutant: no early return for an empty citation list *)
generate_answer_unguarded(cits, gen) ==
    IF gen.status = "error" THEN <<"Error generating answer: ">> \o gen.text
    ELSE clean_answer(gen.text)

(* generate_answer, given what self.llm.invoke does: gen.status is "error" *)
(* when it raises, "ok" when it returns gen.text.                          *)
generate_answer(cits, gen) ==
    IF cits = <<>> THEN RefusalSentence
    ELSE IF gen.status = "error" THEN ErrorAnswer(gen.text)
         ELSE clean_answer(gen.text)

----------------------------------------------------------------------------
(* Agent 1: RouterAgent (app/agents/router.py) *)

categories == <<"MEDICATION", "DIAGNOSIS", "LAB_RESULTS", "TIMELINE", "GENERAL">>

MatchConfidence == 90           \* 0.9
UnclearConfidence == 50         \* 0.5
ErrorConfidence == 30           \* 0.3

(* What the generation call of the router may do: raise, or return a text, *)
(* given by the category names its upper-cased form contains.              *)
RouterGenerations ==
    {[status |-> "error", names |-> {}],
     [status |-> "ok", names |-> {}],
     [status |-> "ok", names |-> {"MEDICATION", "DIAGNOSIS"}],
     [status |-> "ok", names |-> {"DIAGNOSIS"}],
     [status |-> "ok", names |-> {"TIMELINE", "GENERAL"}],
     [status |-> "ok", names |-> {"LAB_RESULTS"}]}

(* Mutant: the scan keeps the last category it finds, not the first *)
route_last_match(gen) ==
    IF gen.status = "error"
    THEN [category |-> "GENERAL", confidence |-> ErrorConfidence]
    ELSE LET hits == {i \in DOMAIN categories : categories[i] \in gen.names} IN
         IF hits # {}
         THEN [category   |-> categories[CHOOSE i \in hits : \A j \in hits : i >= j],
               confidence |-> MatchConfidence]
         ELSE [category |-> "GENERAL", confidence |-> UnclearConfidence]

(* Mutant: the except branch reports the failure as a category of its own *)
route_error_category(gen) ==
    IF gen.status = "error"
    THEN [category |-> "ERROR", confidence |-> ErrorConfidence]
    ELSE LET hits == {i \in DOMAIN categories : categories[i] \in gen.names} IN
         IF hits # {}
         THEN [category   |-> categories[CHOOSE i \in hits : \A j \in hits : i <= j],
               confidence |-> MatchConfidence]
         ELSE [category |-> "GENERAL", confidence |-> UnclearConfidence]

(* route: the generation call raises (lines 61-67), or its stripped and    *)
(* upper-cased text is scanned for the categories in order (lines 44-59).  *)
route(gen) ==
    IF gen.status = "error"
    THEN [category |-> "GENERAL", confidence |-> ErrorConfidence]
    ELSE LET hits == {i \in DOMAIN categories : categories[i] \in gen.names} IN
         IF hits # {}
         THEN [category   |-> categories[CHOOSE i \in hits : \A j \in hits : i <= j],
               confidence |-> MatchConfidence]
         ELSE [category |-> "GENERAL", confidence |-> UnclearConfidence]

----------------------------------------------------------------------------
(* CitationAgent._extract_relevant_snippet on the characters of a text     *)
(* (app/agents/citation.py, lines 78-120)                                  *)

SnippetLimit == 200             \* full_text[:200]

(* str.lower() *)
lower(c) ==
    IF c \in Range(UpperLetters)
    THEN LowerLetters[CHOOSE i \in DOMAIN UpperLetters : UpperLetters[i] = c]
    ELSE c

lower_text(s) == [i \in DOMAIN s |-> lower(s[i])]

(* sub in s *)
contains(s, sub) ==
    \E p \in 1..(Len(s) - Len(sub) + 1) : SubSeq(s, p, p + Len(sub) - 1) = sub

key_terms ==
    << <<"m","e","d","i","c","a","t","i","o","n">>,
       <<"d","i","a","g","n","o","s","i","s">>,
       <<"l","a","b">>,
       <<"r","e","s","u","l","t">>,
       <<"t","e","s","t">>,
       <<"p","r","e","s","c","r","i","b","e","d">>,
       <<"t","r","e","a","t","m","e","n","t">>,
       <<"c","o","n","d","i","t","i","o","n">>,
       <<"v","i","s","i","t">> >>

(* re.split(r'[.!?]\s+', full_text): the text is cut at every terminal     *)
(* mark that white space follows, the mark and the white space dropped     *)
RECURSIVE re_split(_)
re_split(s) ==
    LET cuts == {p \in 1..(Len(s) - 1) : s[p] \in Terminal /\ s[p + 1] \in Whitespace} IN
    IF cuts = {} THEN <<s>>
    ELSE LET p == CHOOSE c \in cuts : \A d \in cuts : c <= d
             inked == {i \in (p + 1)..Len(s) : s[i] \notin Whitespace}
             next == IF inked = {} THEN Len(s) + 1
                     ELSE CHOOSE i \in inked : \A j \in inked : i <= j
         IN <<SubSeq(s, 1, p - 1)>> \o re_split(SubSeq(s, next, Len(s)))

(* '. '.join(parts) *)
RECURSIVE join(_)
join(parts) ==
    IF parts = <<>> THEN <<>>
    ELSE IF Len(parts) = 1 THEN parts[1]
         ELSE parts[1] \o <<".", " ">> \o join(Tail(parts))

DescriptionLabel == <<"D","e","s","c","r","i","p","t","i","o","n",":">>

(* re.search(r'Description:\s*([^\n]+)', full_text): whether it matches,   *)
(* and group(1).  The white space after the label is skipped up to the     *)
(* first other character and the group runs to the end of that line; when  *)
(* only white space follows, the match gives back the last character that  *)
(* is no newline, and fails when there is none.                            *)
search_description(s) ==
    LET starts == {p \in 1..(Len(s) - Len(DescriptionLabel) + 1) :
                      SubSeq(s, p, p + Len(DescriptionLabel) - 1) = DescriptionLabel}
    IN IF starts = {} THEN [found |-> FALSE, group |-> <<>>]
       ELSE LET after == (CHOOSE p \in starts : \A q \in starts : p <= q)
                            + Len(DescriptionLabel)
                inked == {i \in after..Len(s) : s[i] \notin Whitespace}
                on_line == {i \in after..Len(s) : s[i] # "\n"}
            IN IF inked # {}
               THEN LET a == CHOOSE i \in inked : \A j \in inked : i <= j
                        newlines == {i \in a..Len(s) : s[i] = "\n"}
                        e == IF newlines = {} THEN Len(s)
                             ELSE (CHOOSE i \in newlines : \A j \in newlines : i <= j) - 1
                    IN [found |-> TRUE, group |-> SubSeq(s, a, e)]
               ELSE IF on_line # {}
                    THEN [found |-> TRUE,
                          group |-> <<s[CHOOSE i \in on_line : \A j \in on_line : i >= j]>>]
                    ELSE [found |-> FALSE, group |-> <<>>]

(* Mutant: only the first relevant sentence is returned *)
relevant_snippet_first_only(full_text, question_text) ==
    LET question_lower == lower_text(question_text)
        sentences == re_split(full_text)
        is_relevant(sentence) ==
            \E k \in DOMAIN key_terms :
                /\ contains(question_lower, key_terms[k])
                /\ contains(lower_text(sentence), key_terms[k])
        found == SelectSeq(sentences, is_relevant)
        relevant_sentences == [i \in DOMAIN found |-> strip(found[i])]
    IN IF relevant_sentences # <<>>
       THEN join(Prefix(relevant_sentences, 1))
       ELSE IF contains(full_text, DescriptionLabel) /\ search_description(full_text).found
            THEN strip(search_description(full_text).group)
            ELSE Prefix(full_text, SnippetLimit)

(* _extract_relevant_snippet, full_text being record.get('text', '') *)
relevant_snippet(full_text, question_text) ==
    LET question_lower == lower_text(question_text)
        sentences == re_split(full_text)
        is_relevant(sentence) ==
            \E k \in DOMAIN key_terms :
                /\ contains(question_lower, key_terms[k])
                /\ contains(lower_text(sentence), key_terms[k])
        found == SelectSeq(sentences, is_relevant)
        relevant_sentences == [i \in DOMAIN found |-> strip(found[i])]
    IN IF relevant_sentences # <<>>
       THEN join(Prefix(relevant_sentences, 2))
       ELSE IF contains(full_text, DescriptionLabel) /\ search_description(full_text).found
            THEN strip(search_description(full_text).group)
            ELSE Prefix(full_text, SnippetLimit)

(* Texts handed to _extract_relevant_snippet on its own: four sentences    *)
(* closed by different marks, texts with a 'Description:' line, with the   *)
(* bare label, with the label and a blank, and a text without the label    *)
(* that is longer than the limit                                           *)
SnippetTexts ==
    { <<"L","a","b"," ","o","k","."," ","V","i","s","i","t"," ","1","!"," ","T","e","s","t"," ","b","?"," ","L","a","b"," ","c">>,
      <<"D","e","s","c","r","i","p","t","i","o","n",":"," ","f","l","u","\n","D","o","c","t","o","r",":"," ","D","r","."," ","A">>,
      <<"T","y","p","e",":"," ","l","a","b","\n","D","e","s","c","r","i","p","t","i","o","n",":"," ","G","l","u","c","o","s","e"," ","t","e","s","t","\n","D","o","c","t","o","r",":"," ","D","r","."," ","L","e","e">>,
      <<"D","e","s","c","r","i","p","t","i","o","n",":">>,
      <<"N","o","t","e","."," ","D","e","s","c","r","i","p","t","i","o","n",":"," ","\n"," ","f","l","u"," ","s","h","o","t"," ","\n","E","n","d">>,
      <<"D","e","s","c","r","i","p","t","i","o","n",":"," ">>,
      [i \in 1..(SnippetLimit + 1) |-> "x"] }

(* Questions handed to it: about lab results, about visits and tests, and  *)
(* one without key terms                                                   *)
SnippetQuestions ==
    { <<"W","h","a","t"," ","L","A","B"," ","r","e","s","u","l","t","s","?">>,
      <<"A","n","y"," ","v","i","s","i","t"," ","o","r"," ","t","e","s","t","?">>,
      <<"H","e","l","l","o">> }

----------------------------------------------------------------------------
(* The workflow: MedicalRecordsWorkflow (app/graph/workflow.py) *)

NoRouterGeneration == [status |-> "not_called", names |-> {}]
NoRouterResult == [category |-> "", confidence |-> 0]
NoVectorResults == [ok |-> FALSE, distances |-> FALSE, hits |-> <<>>]
NoPatientRecords == [status |-> "not_called", rows |-> <<>>]
NoContext == build_context(<<>>, "")
NoGeneration == [status |-> "not_called", text |-> <<>>]
NoRequests == <<>>
NoReturn == <<>>
NoResponse == [answer |-> <<>>, citations |-> <<>>,
               agent_trace |-> [router_decision |-> "", agents_used |-> <<>>]]

(* The workflow object is built, no query is running. *)
Init ==
    /\ pc = "idle"
    /\ question = {}
    /\ patient_id = ""
    /\ max_sources = 1
    /\ router_result = NoRouterResult
    /\ vector_results = NoVectorResults
    /\ patient_records = NoPatientRecords
    /\ results = <<>>
    /\ retrieved_records = <<>>
    /\ context = NoContext
    /\ citations = <<>>
    /\ final_answer = <<>>
    /\ agents_used = <<>>
    /\ llm_calls = [router |-> 0, answer |-> 0]
    /\ generation = NoGeneration
    /\ response = NoResponse
    /\ raised = ""
    /\ router_generation = NoRouterGeneration
    /\ returned = NoReturn
    /\ requests = NoRequests

(* query, up to graph.invoke: the initial state of the graph *)
Query(q, pid, n) ==
    /\ pc \in {"idle", "returned", "raised"}
    /\ pc' = "router"
    /\ question' = q
    /\ patient_id' = pid
    /\ max_sources' = n
    /\ router_result' = NoRouterResult
    /\ vector_results' = NoVectorResults
    /\ patient_records' = NoPatientRecords
    /\ results' = <<>>
    /\ retrieved_records' = <<>>
    /\ context' = NoContext
    /\ citations' = <<>>
    /\ final_answer' = <<>>
    /\ agents_used' = <<>>
    /\ llm_calls' = [router |-> 0, answer |-> 0]
    /\ generation' = NoGeneration
    /\ response' = NoResponse
    /\ raised' = ""
    /\ router_generation' = NoRouterGeneration
    /\ UNCHANGED <<returned, requests>>

(* _run_router *)
run_router(gen) ==
    /\ pc = "router"
    /\ router_generation' = gen
    /\ router_result' = route(gen)
    /\ llm_calls' = [llm_calls EXCEPT !.router = @ + 1]
    /\ agents_used' = Append(agents_used, "router")
    /\ pc' = "retriever"
    /\ UNCHANGED <<returned, requests,
                   question, patient_id, max_sources, vector_results, patient_records,
                   results, retrieved_records, context, citations, final_answer,
                   generation, response, raised>>

(* Mutant: the except branch returns what was collected so far *)
run_retriever_partial(vr, pr) ==
    /\ pc = "retriever"
    /\ vector_results' = vr
    /\ patient_records' = pr
    /\ LET merged == IF pr.status = "ok"
                     THEN patient_part(vector_part(vr, patient_id), pr.rows)
                     ELSE vector_part(vr, patient_id)
       IN /\ results' = merged
          /\ retrieved_records' = Prefix(sorted_by_confidence(merged), max_sources)
    /\ agents_used' = Append(agents_used, "retriever")
    /\ pc' = "context_builder"
    /\ UNCHANGED <<returned, requests, router_generation,
                   question, patient_id, max_sources, router_result, context,
                   citations, final_answer, llm_calls, generation, response, raised>>

(* _run_retriever, with retrieve (lines 47-105).  vr is what               *)
(* search_records_vector returned; pr is what get_patient_records did,     *)
(* called only when a patient filter is given.                             *)
run_retriever(vr, pr) ==
    /\ pc = "retriever"
    /\ vector_results' = vr
    /\ patient_records' = pr
    /\ LET merged == IF pr.status = "ok"
                     THEN patient_part(vector_part(vr, patient_id), pr.rows)
                     ELSE vector_part(vr, patient_id)
       IN IF pr.status = "error"
          THEN /\ results' = vector_part(vr, patient_id)
               /\ retrieved_records' = <<>>
          ELSE /\ results' = merged
               /\ retrieved_records' = sort_and_limit(merged, max_sources)
    /\ agents_used' = Append(agents_used, "retriever")
    /\ pc' = "context_builder"
    /\ UNCHANGED <<returned, requests, router_generation,
                   question, patient_id, max_sources, router_result, context,
                   citations, final_answer, llm_calls, generation, response, raised>>

(* Mutant: the edge out of context_builder leads back to retriever *)
run_context_builder_reenters ==
    /\ pc = "context_builder"
    /\ context' = build_context(retrieved_records, router_result.category)
    /\ agents_used' = Append(agents_used, "context_builder")
    /\ pc' = "retriever"
    /\ UNCHANGED <<returned, requests, router_generation,
                   question, patient_id, max_sources, router_result, vector_results,
                   patient_records, results, retrieved_records, citations,
                   final_answer, llm_calls, generation, response, raised>>

(* _run_context_builder *)
run_context_builder ==
    /\ pc = "context_builder"
    /\ context' = build_context(retrieved_records, router_result.category)
    /\ agents_used' = Append(agents_used, "context_builder")
    /\ pc' = "citation"
    /\ UNCHANGED <<returned, requests, router_generation,
                   question, patient_id, max_sources, router_result, vector_results,
                   patient_records, results, retrieved_records, citations,
                   final_answer, llm_calls, generation, response, raised>>

(* _run_citation: create_citations returns *)
run_citation ==
    /\ pc = "citation"
    /\ ~create_citations_raises(context.records)
    /\ citations' = create_citations(question, context.records)
    /\ agents_used' = Append(agents_used, "citation")
    /\ pc' = "answer"
    /\ UNCHANGED <<returned, requests, router_generation,
                   question, patient_id, max_sources, router_result, vector_results,
                   patient_records, results, retrieved_records, context,
                   final_answer, llm_calls, generation, response, raised>>

(* _run_citation: create_citations raises; nothing between it and the      *)
(* caller of query catches the ValueError.                                 *)
run_citation_raises ==
    /\ pc = "citation"
    /\ create_citations_raises(context.records)
    /\ raised' = "ValueError"
    /\ pc' = "raised"
    /\ UNCHANGED <<returned, requests, router_generation,
                   question, patient_id, max_sources, router_result, vector_results,
                   patient_records, results, retrieved_records, context, citations,
                   final_answer, agents_used, llm_calls, generation, response>>

(* _run_answer with no citation: generate_answer returns before any        *)
(* generation call.                                                        *)
run_answer_refusal ==
    /\ pc = "answer"
    /\ citations = <<>>
    /\ final_answer' = generate_answer(citations, generation)
    /\ agents_used' = Append(agents_used, "answer")
    /\ pc' = "END"
    /\ UNCHANGED <<returned, requests, router_generation,
                   question, patient_id, max_sources, router_result, vector_results,
                   patient_records, results, retrieved_records, context, citations,
                   llm_calls, generation, response, raised>>

(* Mutant: the generation call is not wrapped in try / except *)
run_answer_uncaught(gen) ==
    /\ pc = "answer"
    /\ citations # <<>>
    /\ generation' = gen
    /\ llm_calls' = [llm_calls EXCEPT !.answer = @ + 1]
    /\ IF gen.status = "error"
       THEN /\ raised' = "GenerationError"
            /\ pc' = "raised"
            /\ UNCHANGED <<final_answer, agents_used>>
       ELSE /\ final_answer' = clean_answer(gen.text)
            /\ agents_used' = Append(agents_used, "answer")
            /\ pc' = "END"
            /\ UNCHANGED raised
    /\ UNCHANGED <<returned, requests, router_generation,
                   question, patient_id, max_sources, router_result, vector_results,
                   patient_records, results, retrieved_records, context, citations,
                   response>>

(* _run_answer with citations: one generation call, which does gen *)
run_answer(gen) ==
    /\ pc = "answer"
    /\ citations # <<>>
    /\ generation' = gen
    /\ llm_calls' = [llm_calls EXCEPT !.answer = @ + 1]
    /\ final_answer' = generate_answer(citations, gen)
    /\ agents_used' = Append(agents_used, "answer")
    /\ pc' = "END"
    /\ UNCHANGED <<returned, requests, router_generation,
                   question, patient_id, max_sources, router_result, vector_results,
                   patient_records, results, retrieved_records, context, citations,
                   response, raised>>

(* query, after graph.invoke: format the response and return it *)
query_return ==
    /\ pc = "END"
    /\ response' = [answer      |-> final_answer,
                    citations   |-> citations,
                    agent_trace |-> [router_decision |-> router_result.category,
                                     agents_used     |-> agents_used]]
    /\ pc' = "returned"
    /\ UNCHANGED <<returned, requests, router_generation,
                   question, patient_id, max_sources, router_result, vector_results,
                   patient_records, results, retrieved_records, context, citations,
                   final_answer, agents_used, llm_calls, generation, raised>>

AnswerGenerations ==
    {[status |-> "error", text |-> <<"GenerationError">>]} \cup
    {[status |-> "ok", text |-> t] : t \in Generations}

PatientRecordsOutcomes(pid) ==
    IF pid = "" THEN {NoPatientRecords}
    ELSE {[status |-> "error", rows |-> <<>>]} \cup
         {[status |-> "ok", rows |-> rows] : rows \in get_patient_records(pid)}

Next ==
    \/ /\ pc \in {"idle", "returned", "raised"}
       /\ \E q \in Questions, pid \in PatientFilters, n \in 1..MaxSources :
             Query(q, pid, n)
    \/ /\ pc = "router"
       /\ \E gen \in RouterGenerations : run_router(gen)
    \/ /\ pc = "retriever"
       /\ \E pr \in PatientRecordsOutcomes(patient_id) :
             \E vr \in search_records_vector(max_sources) : run_retriever(vr, pr)
    \/ run_context_builder
    \/ run_citation
    \/ run_citation_raises
    \/ run_answer_refusal
    \/ /\ pc = "answer"
       /\ \E gen \in AnswerGenerations : run_answer(gen)
    \/ query_return

Spec == Init /\ [][Next]_vars

----------------------------------------------------------------------------
(* The agents called one at a time, outside the graph: one call of route,  *)
(* build_context, _sort_by_date or create_citations on arguments drawn     *)
(* from the sets below.  The variables of the pipeline hold the arguments  *)
(* and what the call returned.                                             *)

(* Every text the router's generation call may return, given by the        *)
(* category names its upper-cased form contains, and the call raising.     *)
UnitRouterGenerations ==
    {[status |-> "error", names |-> {}]} \cup
    {[status |-> "ok", names |-> S] : S \in SUBSET Range(categories)}

(* A record as a caller may hand it to create_citations: no 'confidence' *)
without_confidence(record) ==
    [f \in DOMAIN record \ {"confidence"} |-> record[f]]

(* A record of another patient who has the display name of P001 *)
namesake_record ==
    [vector_record([row |-> 3, distance |-> 15]) EXCEPT
        !.source_id = chroma_id(6), !.patient_id = "P003"]

(* A record whose medication and diagnosis have white space around them *)
padded_record ==
    [vector_record([row |-> 4, distance |-> 15]) EXCEPT
        !.source_id = chroma_id(7), !.medication = " N/A ",
        !.diagnosis = "Hypertension Stage 1 "]

(* A record of 18 July 2024 whose date is written without '-' *)
basic_date_record ==
    [vector_record([row |-> 1, distance |-> 150]) EXCEPT
        !.source_id = chroma_id(8), !.date = "20240718"]

(* Categories handed to build_context on its own: the five, and one the   *)
(* builder does not know                                                  *)
UnitCategories == Range(categories) \cup {"UNKNOWN"}

(* Records of the kinds retrieve builds: a vector hit of every row (of     *)
(* confidence 0.95, 0, above 1, 0 and 0.85), two patient_filter records,   *)
(* one record that carries no confidence, a namesake of another patient    *)
(* and a record with padded values.                                        *)
UnitRecords ==
    {vector_record(hit) : hit \in {[row |-> 1, distance |-> 5],
                                    [row |-> 2, distance |-> 150],
                                    [row |-> 3, distance |-> -50],
                                    [row |-> 4, distance |-> 150],
                                    [row |-> 5, distance |-> 15]}}
    \cup {patient_filter_record(medical_records[k]) : k \in {2, 3}}
    \cup {without_confidence(patient_filter_record(medical_records[1]))}
    \cup {namesake_record, padded_record}

CandidateLists == InjectiveSeqs(UnitRecords, MaxRecords)

(* Records handed to _calculate_confidence on its own *)
ScoredRecords == UnitRecords \cup {basic_date_record}

(* Texts handed to _clean_answer called on its own: those of the          *)
(* generation call, and texts with an artifact phrase in the middle, in   *)
(* lowercase or alone, with a last mark at and past the middle, with none *)
UnitGenerations ==
    Generations \cup
    { <<"y","e","s","."," ","A","n","s","w","e","r",":"," ","n","o",".">>,
      <<"H","i","."," ","Y","o">>,
      <<"a","n","s","w","e","r",":"," ","o","k",".">>,
      <<"A","n","s","w","e","r",":">>,
      <<"I","t"," ","i","s","."," ","s","o">>,
      <<"B","a","s","e","d"," ","o","n"," ","t","h","e"," ","e","v","i","d","e","n","c","e",":"," ","i","t"," ","i","s",".">>,
      <<"N","o">> }

UnitInit ==
    /\ pc = "unit"
    /\ question = {}
    /\ patient_id = ""
    /\ max_sources = 1
    /\ router_result = NoRouterResult
    /\ vector_results = NoVectorResults
    /\ patient_records = NoPatientRecords
    /\ results = <<>>
    /\ retrieved_records = <<>>
    /\ context = NoContext
    /\ citations = <<>>
    /\ final_answer = <<>>
    /\ agents_used = <<>>
    /\ llm_calls = [router |-> 0, answer |-> 0]
    /\ generation = NoGeneration
    /\ response = NoResponse
    /\ raised = ""
    /\ router_generation = NoRouterGeneration
    /\ returned = NoReturn
    /\ requests = NoRequests

(* router.route(question), the generation call doing gen *)
call_route(gen) ==
    /\ pc = "unit"
    /\ router_generation' = gen
    /\ router_result' = route(gen)
    /\ llm_calls' = [llm_calls EXCEPT !.router = @ + 1]
    /\ pc' = "routed"
    /\ UNCHANGED <<returned, requests, question, patient_id, max_sources, vector_results,
                   patient_records, results, retrieved_records, context, citations,
                   final_answer, agents_used, generation, response, raised>>

(* context_builder.build_context(records, category) *)
call_build_context(records, category) ==
    /\ pc = "unit"
    /\ retrieved_records' = records
    /\ context' = build_context(records, category)
    /\ pc' = "context_built"
    /\ UNCHANGED <<returned, requests, router_generation,
                   question, patient_id, max_sources, router_result, vector_results,
                   patient_records, results, citations, final_answer, agents_used,
                   llm_calls, generation, response, raised>>

(* context_builder._sort_by_date(records): results holds what it returned *)
call_sort_by_date(records) ==
    /\ pc = "unit"
    /\ retrieved_records' = records
    /\ results' = sort_by_date(records)
    /\ pc' = "sorted"
    /\ UNCHANGED <<returned, requests, router_generation,
                   question, patient_id, max_sources, router_result, vector_results,
                   patient_records, context, citations, final_answer, agents_used,
                   llm_calls, generation, response, raised>>

(* context_builder._sort_by_date on the list the first call returned;      *)
(* context.records holds what the second call returned                     *)
call_sort_by_date_again ==
    /\ pc = "sorted"
    /\ context' = [context EXCEPT !.records = sort_by_date(results)]
    /\ pc' = "sorted_again"
    /\ UNCHANGED <<returned, requests, router_generation,
                   question, patient_id, max_sources, router_result, vector_results,
                   patient_records, results, retrieved_records, citations,
                   final_answer, agents_used, llm_calls, generation, response, raised>>

(* citation.create_citations(question, context) returns *)
call_create_citations(q, records) ==
    /\ pc = "unit"
    /\ ~create_citations_raises(records)
    /\ question' = q
    /\ context' = [context EXCEPT !.records = records, !.total_records = Len(records)]
    /\ citations' = create_citations(q, records)
    /\ pc' = "cited"
    /\ UNCHANGED <<returned, requests, router_generation,
                   patient_id, max_sources, router_result, vector_results,
                   patient_records, results, retrieved_records, final_answer,
                   agents_used, llm_calls, generation, response, raised>>

(* citation.create_citations(question, context) raises *)
call_create_citations_raises(q, records) ==
    /\ pc = "unit"
    /\ create_citations_raises(records)
    /\ question' = q
    /\ context' = [context EXCEPT !.records = records, !.total_records = Len(records)]
    /\ raised' = "ValueError"
    /\ pc' = "raised"
    /\ UNCHANGED <<returned, requests, router_generation,
                   patient_id, max_sources, router_result, vector_results,
                   patient_records, results, retrieved_records, citations,
                   final_answer, agents_used, llm_calls, generation, response>>

(* answer._clean_answer(text): returned holds the cleaned text *)
call_clean_answer(text) ==
    /\ pc = "unit"
    /\ generation' = [status |-> "ok", text |-> text]
    /\ returned' = clean_answer(text)
    /\ pc' = "cleaned"
    /\ UNCHANGED <<requests, router_generation,
                   question, patient_id, max_sources, router_result, vector_results,
                   patient_records, results, retrieved_records, context, citations,
                   final_answer, agents_used, llm_calls, response, raised>>

(* answer._clean_answer on the text the first call returned; final_answer *)
(* holds what the second call returned                                    *)
call_clean_answer_again ==
    /\ pc = "cleaned"
    /\ final_answer' = clean_answer(returned)
    /\ pc' = "cleaned_again"
    /\ UNCHANGED <<returned, requests, router_generation,
                   question, patient_id, max_sources, router_result, vector_results,
                   patient_records, results, retrieved_records, context, citations,
                   agents_used, llm_calls, generation, response, raised>>

(* citation._calculate_confidence(record, question) returns: returned    *)
(* holds the confidence, in ticks                                         *)
call_calculate_confidence(record, q) ==
    /\ pc = "unit"
    /\ ~calculate_confidence_raises(record)
    /\ question' = q
    /\ context' = [context EXCEPT !.records = <<record>>, !.total_records = 1]
    /\ returned' = calculate_confidence(record, q)
    /\ pc' = "scored"
    /\ UNCHANGED <<requests, router_generation,
                   patient_id, max_sources, router_result, vector_results,
                   patient_records, results, retrieved_records, citations,
                   final_answer, agents_used, llm_calls, generation, response, raised>>

(* citation._calculate_confidence(record, question) raises *)
call_calculate_confidence_raises(record, q) ==
    /\ pc = "unit"
    /\ calculate_confidence_raises(record)
    /\ question' = q
    /\ context' = [context EXCEPT !.records = <<record>>, !.total_records = 1]
    /\ raised' = "ValueError"
    /\ pc' = "score_raised"
    /\ UNCHANGED <<returned, requests, router_generation,
                   patient_id, max_sources, router_result, vector_results,
                   patient_records, results, retrieved_records, citations,
                   final_answer, agents_used, llm_calls, generation, response>>

(* citation._extract_relevant_snippet(record, question): returned holds  *)
(* the snippet                                                            *)
call_extract_relevant_snippet(text, q) ==
    /\ pc = "unit"
    /\ question' = q
    /\ context' = [context EXCEPT !.records = <<[text |-> text]>>, !.total_records = 1]
    /\ returned' = relevant_snippet(text, q)
    /\ pc' = "snipped"
    /\ UNCHANGED <<requests, router_generation,
                   patient_id, max_sources, router_result, vector_results,
                   patient_records, results, retrieved_records, citations,
                   final_answer, agents_used, llm_calls, generation, response, raised>>

UnitNext ==
    \/ /\ pc = "unit"
       /\ \E gen \in UnitRouterGenerations : call_route(gen)
    \/ /\ pc = "unit"
       /\ \E records \in CandidateLists, category \in UnitCategories :
             call_build_context(records, category)
    \/ /\ pc = "unit"
       /\ \E records \in CandidateLists : call_sort_by_date(records)
    \/ call_sort_by_date_again
    \/ /\ pc = "unit"
       /\ \E q \in Questions, records \in CandidateLists :
             call_create_citations(q, records)
    \/ /\ pc = "unit"
       /\ \E q \in Questions, records \in CandidateLists :
             call_create_citations_raises(q, records)
    \/ /\ pc = "unit"
       /\ \E text \in UnitGenerations : call_clean_answer(text)
    \/ call_clean_answer_again
    \/ /\ pc = "unit"
       /\ \E record \in ScoredRecords, q \in Questions :
             call_calculate_confidence(record, q)
    \/ /\ pc = "unit"
       /\ \E record \in ScoredRecords, q \in Questions :
             call_calculate_confidence_raises(record, q)
    \/ /\ pc = "unit"
       /\ \E text \in SnippetTexts, q \in SnippetQuestions :
             call_extract_relevant_snippet(text, q)

UnitSpec == UnitInit /\ [][UnitNext]_vars

----------------------------------------------------------------------------
(* Concurrent invocations of query on the one workflow object that         *)
(* get_workflow hands to every request.  The object holds the five agents  *)
(* and the compiled graph, none of which a stage writes to; each           *)
(* invocation builds its own state dictionary, requests[r] here, and the   *)
(* stages of different invocations interleave in every order.              *)

Requests == 1..NumRequests

ConcurrentQueries ==
    {[question |-> {"medication"}, patient_id |-> "P001", max_sources |-> 1],
     [question |-> {}, patient_id |-> "", max_sources |-> MaxSources]}

(* initial_state of query, graph.invoke about to run the entry node *)
initial_state(q) ==
    [pc                |-> "router",
     question          |-> q.question,
     patient_id        |-> q.patient_id,
     max_sources       |-> q.max_sources,
     router_generation |-> NoRouterGeneration,
     router_result     |-> NoRouterResult,
     vector_results    |-> NoVectorResults,
     patient_records   |-> NoPatientRecords,
     retrieved_records |-> <<>>,
     context           |-> NoContext,
     citations         |-> <<>>,
     final_answer      |-> <<>>,
     agents_used       |-> <<>>,
     generation        |-> NoGeneration,
     response          |-> NoResponse,
     raised            |-> ""]

(* What the backends may do for one of the concurrent invocations *)
ConcurrentRouterGenerations ==
    {gen \in RouterGenerations : gen.status = "error" \/ gen.names = {"TIMELINE", "GENERAL"}}

(* two of the results of search_records_vector: one hit, of row 1 or row 5 *)
ConcurrentVectorResults(top_k) ==
    {[ok |-> TRUE, distances |-> TRUE, hits |-> <<[row |-> k, distance |-> 15]>>] :
        k \in {1, 5}}

ConcurrentPatientRecords(pid) ==
    {pr \in PatientRecordsOutcomes(pid) : pr.status # "ok" \/ pr.rows[1][1] = 1}

ConcurrentAnswerGenerations ==
    {gen \in AnswerGenerations : gen.status = "error" \/ Head(gen.text) = "y"}

(* Every request has been accepted and its invocation of query has begun. *)
ConcurrentInit ==
    /\ requests \in [Requests -> {initial_state(q) : q \in ConcurrentQueries}]
    /\ pc = "idle"
    /\ question = {}
    /\ patient_id = ""
    /\ max_sources = 1
    /\ router_result = NoRouterResult
    /\ vector_results = NoVectorResults
    /\ patient_records = NoPatientRecords
    /\ results = <<>>
    /\ retrieved_records = <<>>
    /\ context = NoContext
    /\ citations = <<>>
    /\ final_answer = <<>>
    /\ agents_used = <<>>
    /\ llm_calls = [router |-> 0, answer |-> 0]
    /\ generation = NoGeneration
    /\ response = NoResponse
    /\ raised = ""
    /\ router_generation = NoRouterGeneration
    /\ returned = NoReturn

(* Mutant: router_result is kept in one place that all invocations share *)
run_router_shared_result(r, gen) ==
    /\ requests[r].pc = "router"
    /\ requests' = [x \in DOMAIN requests |->
                      IF x = r
                      THEN [requests[x] EXCEPT !.router_generation = gen,
                                               !.router_result = route(gen),
                                               !.agents_used = Append(@, "router"),
                                               !.pc = "retriever"]
                      ELSE [requests[x] EXCEPT !.router_result = route(gen)]]
    /\ UNCHANGED pipeline_vars

(* _run_router on the state of invocation r *)
run_router_of(r, gen) ==
    /\ requests[r].pc = "router"
    /\ requests' = [requests EXCEPT ![r].router_generation = gen,
                                    ![r].router_result = route(gen),
                                    ![r].agents_used = Append(@, "router"),
                                    ![r].pc = "retriever"]
    /\ UNCHANGED pipeline_vars

(* _run_retriever on the state of invocation r *)
run_retriever_of(r, vr, pr) ==
    /\ requests[r].pc = "retriever"
    /\ requests' = [requests EXCEPT
          ![r].vector_results = vr,
          ![r].patient_records = pr,
          ![r].retrieved_records =
              retrieve(vr, pr, requests[r].patient_id, requests[r].max_sources),
          ![r].agents_used = Append(@, "retriever"),
          ![r].pc = "context_builder"]
    /\ UNCHANGED pipeline_vars

(* _run_context_builder on the state of invocation r *)
run_context_builder_of(r) ==
    /\ requests[r].pc = "context_builder"
    /\ requests' = [requests EXCEPT
          ![r].context = build_context(requests[r].retrieved_records,
                                       requests[r].router_result.category),
          ![r].agents_used = Append(@, "context_builder"),
          ![r].pc = "citation"]
    /\ UNCHANGED pipeline_vars

(* _run_citation on the state of invocation r: create_citations returns *)
run_citation_of(r) ==
    /\ requests[r].pc = "citation"
    /\ ~create_citations_raises(requests[r].context.records)
    /\ requests' = [requests EXCEPT
          ![r].citations = create_citations(requests[r].question,
                                            requests[r].context.records),
          ![r].agents_used = Append(@, "citation"),
          ![r].pc = "answer"]
    /\ UNCHANGED pipeline_vars

(* _run_citation on the state of invocation r: create_citations raises *)
run_citation_raises_of(r) ==
    /\ requests[r].pc = "citation"
    /\ create_citations_raises(requests[r].context.records)
    /\ requests' = [requests EXCEPT ![r].raised = "ValueError", ![r].pc = "raised"]
    /\ UNCHANGED pipeline_vars

(* _run_answer on the state of invocation r, no citation *)
run_answer_refusal_of(r) ==
    /\ requests[r].pc = "answer"
    /\ requests[r].citations = <<>>
    /\ requests' = [requests EXCEPT
          ![r].final_answer = generate_answer(requests[r].citations,
                                              requests[r].generation),
          ![r].agents_used = Append(@, "answer"),
          ![r].pc = "END"]
    /\ UNCHANGED pipeline_vars

(* _run_answer on the state of invocation r, the generation call doing gen *)
run_answer_of(r, gen) ==
    /\ requests[r].pc = "answer"
    /\ requests[r].citations # <<>>
    /\ requests' = [requests EXCEPT
          ![r].generation = gen,
          ![r].final_answer = generate_answer(requests[r].citations, gen),
          ![r].agents_used = Append(@, "answer"),
          ![r].pc = "END"]
    /\ UNCHANGED pipeline_vars

(* query of invocation r formats its response and returns it *)
query_return_of(r) ==
    /\ requests[r].pc = "END"
    /\ requests' = [requests EXCEPT
          ![r].response =
              [answer      |-> requests[r].final_answer,
               citations   |-> requests[r].citations,
               agent_trace |-> [router_decision |-> requests[r].router_result.category,
                                agents_used     |-> requests[r].agents_used]],
          ![r].pc = "returned"]
    /\ UNCHANGED pipeline_vars

ConcurrentNext ==
    \/ \E r \in Requests :
          /\ requests[r].pc = "router"
          /\ \E gen \in ConcurrentRouterGenerations : run_router_of(r, gen)
    \/ \E r \in Requests :
          /\ requests[r].pc = "retriever"
          /\ \E pr \in ConcurrentPatientRecords(requests[r].patient_id) :
                \E vr \in ConcurrentVectorResults(requests[r].max_sources) :
                    run_retriever_of(r, vr, pr)
    \/ \E r \in Requests : run_context_builder_of(r)
    \/ \E r \in Requests : run_citation_of(r)
    \/ \E r \in Requests : run_citation_raises_of(r)
    \/ \E r \in Requests : run_answer_refusal_of(r)
    \/ \E r \in Requests :
          /\ requests[r].pc = "answer"
          /\ \E gen \in ConcurrentAnswerGenerations : run_answer_of(r, gen)
    \/ \E r \in Requests : query_return_of(r)

ConcurrentSpec == ConcurrentInit /\ [][ConcurrentNext]_vars

----------------------------------------------------------------------------
(* Properties *)

Stages == <<"router", "retriever", "context_builder", "citation", "answer">>

(* How many stages have finished when the query stands at p *)
StagesDone(p) ==
    CASE p = "router" -> 0
      [] p = "retriever" -> 1
      [] p = "context_builder" -> 2
      [] p = "citation" -> 3
      [] p = "raised" -> 3
      [] p = "answer" -> 4
      [] p = "END" -> 5
      [] p = "returned" -> 5
      [] OTHER -> 0

AfterRetriever == pc \in {"context_builder", "citation", "raised", "answer", "END", "returned"}
AfterContextBuilder == pc \in {"citation", "raised", "answer", "END", "returned"}
AfterCitation == pc \in {"answer", "END", "returned"}
AfterAnswer == pc \in {"END", "returned"}

SamePatientDate(a, b) == a.patient_id = b.patient_id /\ a.date = b.date

NonIncreasing(s) == \A i, j \in DOMAIN s : i < j => s[i].confidence >= s[j].confidence

(* C1: the stages that have run are, at every moment, the first k of       *)
(* router, retriever, context_builder, citation, answer, each once and in  *)
(* that order, and a returned response lists exactly the five of them.     *)
C1_StagesOnceInOrder ==
    /\ agents_used = SubSeq(Stages, 1, StagesDone(pc))
    /\ pc = "returned" => response.agent_trace.agents_used = Stages

C1_Witness ==
    /\ pc = "returned"
    /\ response.agent_trace.agents_used = Stages
    /\ response.citations # <<>>

(* C2: a candidate list with a record whose date does not parse never      *)
(* aborts the pipeline: the context keeps the input order, and the query   *)
(* does not raise.                                                         *)
C2_UnparseableDateNeverAborts ==
    /\ (AfterContextBuilder
          /\ \E i \in DOMAIN retrieved_records : ~strptime_ok(retrieved_records[i].date))
       => context.records = retrieved_records
    /\ pc # "raised"
    /\ raised = ""

(* C3: when the generation call of the answer agent fails, generate_answer *)
(* returns the error-describing text, the query does not raise, and the    *)
(* response it returns carries the scored citations and all five stages.   *)
C3_GenerationFailureReturnsResponse ==
    generation.status = "error" =>
        /\ AfterAnswer
        /\ raised = ""
        /\ final_answer = ErrorAnswer(generation.text)
        /\ pc = "END" => ENABLED query_return
        /\ pc = "returned" =>
              /\ response.answer = final_answer
              /\ response.citations = citations
              /\ Len(response.citations) = Len(context.records)
              /\ response.citations # <<>>
              /\ response.agent_trace.agents_used = Stages

C3_Witness ==
    /\ pc = "returned"
    /\ generation.status = "error"
    /\ response.citations # <<>>
    /\ response.answer = ErrorAnswer(<<"GenerationError">>)

(* C4 as claimed: no two records of the list retrieve returns share the    *)
(* same (patient_id, date).                                                *)
C4_NoSharedPatientDate ==
    \A i, j \in DOMAIN retrieved_records :
        i # j => ~SamePatientDate(retrieved_records[i], retrieved_records[j])

(* C4 as amended: a patient_filter record of the list retrieve returns     *)
(* shares its (patient_id, date) with no other record of the list; two     *)
(* vector hits may share theirs.                                           *)
C4_NoSharedPatientDateWithPatientFilter ==
    \A i, j \in DOMAIN retrieved_records :
        (i # j /\ retrieved_records[i].search_method = "patient_filter")
            => ~SamePatientDate(retrieved_records[i], retrieved_records[j])

(* a history row was left out because a vector hit has its patient and date *)
C4_Witness ==
    /\ AfterRetriever
    /\ patient_records.status = "ok"
    /\ \E i, j \in DOMAIN retrieved_records :
          /\ retrieved_records[i].search_method = "vector"
          /\ retrieved_records[j].search_method = "patient_filter"
    /\ \E k \in DOMAIN patient_records.rows :
          /\ k <= 3
          /\ \E i \in DOMAIN retrieved_records :
                /\ retrieved_records[i].search_method = "vector"
                /\ retrieved_records[i].patient_id = py(patient_records.rows[k], 1)
                /\ retrieved_records[i].date = py(patient_records.rows[k], 3)

(* C5: every citation has a confidence in [0, 1]. *)
C5_CitationConfidenceInUnitInterval ==
    \A i \in DOMAIN citations :
        citations[i].confidence >= 0 /\ citations[i].confidence <= One

(* a hit of negative distance, retrieval confidence above 1, was scored *)
C5_Witness ==
    /\ AfterCitation
    /\ \E i \in DOMAIN context.records : context.records[i].confidence > One
    /\ \E i \in DOMAIN context.records : context.records[i].confidence = 0
    /\ \E i \in DOMAIN citations : citations[i].confidence = One

(* The place in context.records of the record a citation was built from *)
RecordOf(c) ==
    CHOOSE k \in DOMAIN context.records : context.records[k].source_id = c.source_id

(* C6: create_citations returns one citation per record of context.records, *)
(* in order of non-increasing confidence, and citations of equal           *)
(* confidence keep the order their records have in context.records.        *)
C6_OneCitationPerRecordStableOrder ==
    AfterCitation =>
        /\ Len(citations) = Len(context.records)
        /\ \A k \in DOMAIN context.records :
              Cardinality({i \in DOMAIN citations :
                  citations[i].source_id = context.records[k].source_id}) = 1
        /\ \A i \in DOMAIN citations :
              /\ citations[i].patient_id = context.records[RecordOf(citations[i])].patient_id
              /\ citations[i].date = context.records[RecordOf(citations[i])].date
        /\ NonIncreasing(citations)
        /\ \A i, j \in DOMAIN citations :
              (i < j /\ citations[i].confidence = citations[j].confidence)
                  => RecordOf(citations[i]) < RecordOf(citations[j])

(* two citations of equal confidence, from records whose retrieval         *)
(* confidences differ and which the date sort had put in the other order   *)
C6_Witness ==
    /\ AfterCitation
    /\ Len(citations) = 2
    /\ citations[1].confidence = citations[2].confidence
    /\ context.records[1].confidence < context.records[2].confidence
    /\ context.records # retrieved_records

(* C7: with no citation the answer is the fixed refusal sentence and the   *)
(* answer stage has made no generation call.                               *)
C7_EmptyCitationsRefusalNoGeneration ==
    (AfterAnswer /\ citations = <<>>) =>
        /\ final_answer = RefusalSentence
        /\ llm_calls.answer = 0
        /\ generation.status = "not_called"

C7_Witness ==
    /\ pc = "returned"
    /\ citations = <<>>
    /\ response.answer = RefusalSentence
    /\ llm_calls = [router |-> 1, answer |-> 0]

(* C8: when the retriever returns no record, the context has total_records *)
(* 0, no records, no key findings and the summary 'No relevant records     *)
(* found.', whatever the category; there are no citations; the answer is   *)
(* the refusal sentence.                                                   *)
C8_ZeroRecordsPipeline ==
    retrieved_records = <<>> =>
        /\ AfterContextBuilder =>
              /\ context.total_records = 0
              /\ context.records = <<>>
              /\ context.key_findings = <<>>
              /\ context.context_summary.text = "No relevant records found."
        /\ AfterCitation => citations = <<>>
        /\ AfterAnswer => final_answer = RefusalSentence
        /\ pc = "returned" =>
              response.answer = RefusalSentence /\ response.citations = <<>>

(* a query routed to a category with findings of its own came back empty *)
C8_Witness ==
    /\ pc = "returned"
    /\ retrieved_records = <<>>
    /\ router_result.category = "TIMELINE"
    /\ vector_results.ok
    /\ response.answer = RefusalSentence

C10_TopNByConfidence ==
    AfterRetriever =>
        /\ Len(retrieved_records) <= max_sources
        /\ Range(retrieved_records) \subseteq Range(results)
        /\ \A i, j \in DOMAIN retrieved_records :
              i # j => retrieved_records[i] # retrieved_records[j]
        /\ NonIncreasing(retrieved_records)
        /\ \A r \in Range(results) \ Range(retrieved_records) :
              \A k \in Range(retrieved_records) : r.confidence <= k.confidence
        /\ patient_records.status # "error" =>
              Len(retrieved_records) = Min(max_sources, Len(results))

(* the merged list was out of order and longer than max_sources *)
C10_Witness ==
    /\ AfterRetriever
    /\ Len(results) > max_sources
    /\ retrieved_records # <<>>
    /\ \E i, j \in DOMAIN results : i < j /\ results[i].confidence < results[j].confidence
    /\ \E r \in Range(results) \ Range(retrieved_records) :
          r.confidence < retrieved_records[1].confidence
    /\ retrieved_records[1] # results[1]

----------------------------------------------------------------------------
(* Properties of the agents called one at a time (UnitSpec) *)

(* C11: route scans MEDICATION, DIAGNOSIS, LAB_RESULTS, TIMELINE, GENERAL  *)
(* in this order and returns, with confidence 0.9, the first one the       *)
(* upper-cased response contains; when it contains none it returns GENERAL *)
(* with confidence 0.5.                                                    *)
C11_FirstCategoryInScanOrder ==
    LET order == <<"MEDICATION", "DIAGNOSIS", "LAB_RESULTS", "TIMELINE", "GENERAL">>
        names == router_generation.names
    IN router_generation.status = "ok" =>
          IF \E i \in DOMAIN order : order[i] \in names
          THEN /\ router_result.confidence = 90
               /\ \E i \in DOMAIN order :
                     /\ router_result.category = order[i]
                     /\ order[i] \in names
                     /\ \A j \in 1..(i - 1) : order[j] \notin names
          ELSE router_result = [category |-> "GENERAL", confidence |-> 50]

(* the response names three categories, GENERAL among them *)
C11_Witness ==
    /\ pc = "routed"
    /\ router_generation.status = "ok"
    /\ router_generation.names = {"GENERAL", "TIMELINE", "DIAGNOSIS"}
    /\ router_result = [category |-> "DIAGNOSIS", confidence |-> 90]

(* C12: when the generation call raises, route returns GENERAL with        *)
(* confidence 0.3 and nothing is raised; whatever the generation call      *)
(* does, the category route returns is one of the five.                    *)
C12_FailureIsGeneralCategoryAlwaysOneOfFive ==
    /\ router_generation.status = "error" =>
          /\ router_result = [category |-> "GENERAL", confidence |-> 30]
          /\ pc = "routed"
          /\ raised = ""
    /\ router_generation.status # "not_called" =>
          router_result.category \in
              {"MEDICATION", "DIAGNOSIS", "LAB_RESULTS", "TIMELINE", "GENERAL"}

C12_Witness ==
    /\ pc = "routed"
    /\ router_generation.status = "error"
    /\ llm_calls.router = 1
    /\ router_result.category = "GENERAL"

Count(s, x) == Cardinality({i \in DOMAIN s : s[i] = x})

IsPermutation(s, t) ==
    /\ Len(s) = Len(t)
    /\ \A x \in Range(s) \cup Range(t) : Count(s, x) = Count(t, x)

AllDatesParse(s) == \A i \in DOMAIN s : strptime_ok(s[i].date)

(* C13: build_context returns total_records equal to the length of the     *)
(* candidate list, and records that are a permutation of that list.        *)
C13_ContextKeepsEveryRecord ==
    pc = "context_built" =>
        /\ context.total_records = Len(retrieved_records)
        /\ IsPermutation(context.records, retrieved_records)

(* three records, two of them of one date, came back in another order *)
C13_Witness ==
    /\ pc = "context_built"
    /\ Len(retrieved_records) = 3
    /\ context.records # retrieved_records
    /\ \E i, j \in DOMAIN retrieved_records :
          i # j /\ retrieved_records[i].date = retrieved_records[j].date

(* C14: _sort_by_date returns the list in non-increasing date order when   *)
(* every date parses; when a date does not parse it raises nothing and     *)
(* returns the list in the order it was given.                             *)
C14_SortByDateOrFallback ==
    pc = "sorted" =>
        /\ raised = ""
        /\ IF AllDatesParse(retrieved_records)
           THEN \A i, j \in DOMAIN results :
                    i < j => strptime(results[i].date) >= strptime(results[j].date)
           ELSE results = retrieved_records

(* a list out of date order with an unparseable date came back unchanged *)
C14_Witness ==
    /\ pc = "sorted"
    /\ Len(retrieved_records) = 3
    /\ ~strptime_ok(retrieved_records[2].date)
    /\ strptime(retrieved_records[1].date) < strptime(retrieved_records[3].date)
    /\ results = retrieved_records

(* C15: _sort_by_date applied to the list it returned returns that list.   *)
C15_SortByDateIdempotent ==
    pc = "sorted_again" => context.records = results

(* the first call changed the order, and two records have the same date *)
C15_Witness ==
    /\ pc = "sorted_again"
    /\ results # retrieved_records
    /\ \E i, j \in DOMAIN results : i # j /\ results[i].date = results[j].date
    /\ context.records = results

EarliestDate(s) ==
    CHOOSE d \in {s[i].date : i \in DOMAIN s} :
        \A i \in DOMAIN s : strptime(d) <= strptime(s[i].date)

LatestDate(s) ==
    CHOOSE d \in {s[i].date : i \in DOMAIN s} :
        \A i \in DOMAIN s : strptime(d) >= strptime(s[i].date)

(* C16: for category TIMELINE and a non-empty candidate list whose dates   *)
(* all parse, in whatever order it is given, the key findings contain      *)
(* 'Records span from <earliest date> to <latest date>' and                *)
(* 'Total visits/records: <length of the list>'.                           *)
C16_TimelineSpanAndTotal ==
    (/\ pc = "context_built"
     /\ context.category = "TIMELINE"
     /\ retrieved_records # <<>>
     /\ AllDatesParse(retrieved_records))
    => /\ Finding("Records span from", {}, EarliestDate(retrieved_records),
                  LatestDate(retrieved_records), 0) \in Range(context.key_findings)
       /\ Finding("Total visits/records", {}, "", "", Len(retrieved_records))
             \in Range(context.key_findings)

(* three dates given as middle, earliest, latest *)
C16_Witness ==
    /\ pc = "context_built"
    /\ context.category = "TIMELINE"
    /\ [i \in DOMAIN retrieved_records |-> retrieved_records[i].date]
          = <<"2024-03-10", "2023-11-05", "2024-07-18">>
    /\ Finding("Records span from", {}, "2023-11-05", "2024-07-18", 0)
          \in Range(context.key_findings)

(* The recency term of a date, in ticks: (month / 12) * 0.1 for a date of  *)
(* 2024, else 0.                                                           *)
RecencyOf(date) ==
    CASE date = "2024-07-18" -> (7 * One) \div 120
      [] date = "2024-03-10" -> (3 * One) \div 120
      [] OTHER -> 0

(* The record of context.records a citation was built from *)
ScoredRecord(c) ==
    CHOOSE r \in Range(context.records) : r.source_id = c.source_id

(* C17: the confidence of a citation is, rounded to two decimals,          *)
(* min(1.0, base + 0.10 [question mentions 'medication', medication field  *)
(* not empty] + 0.10 [question mentions 'diagnosis', diagnosis field not   *)
(* empty] + 0.15 [question mentions 'lab', record type 'lab'] + recency),  *)
(* base being the retrieval confidence, 0.7 when the record has none; a    *)
(* question about medications, a record with medication 'Lisinopril 10mg   *)
(* daily', confidence 0.95 and date 2024-07-18 give 1.0.                   *)
C17_ConfidenceFormula ==
    pc = "cited" =>
        \A i \in DOMAIN citations :
            LET c == citations[i]
                r == ScoredRecord(c)
                base == IF "confidence" \in DOMAIN r THEN r.confidence ELSE 70 * Tick
                sum == base
                       + (IF "medication" \in question /\ r.medication # ""
                          THEN 10 * Tick ELSE 0)
                       + (IF "diagnosis" \in question /\ r.diagnosis # ""
                          THEN 10 * Tick ELSE 0)
                       + (IF "lab" \in question /\ r.record_type = "lab"
                          THEN 15 * Tick ELSE 0)
                       + RecencyOf(r.date)
                exact == IF sum > One THEN One ELSE sum
            IN /\ c.confidence % Tick = 0
               /\ 2 * (c.confidence - exact) <= Tick
               /\ 2 * (exact - c.confidence) <= Tick
               /\ ("confidence" \in DOMAIN r /\ r.confidence = 95 * Tick
                     /\ r.medication = "Lisinopril 10mg daily"
                     /\ r.date = "2024-07-18" /\ "medication" \in question)
                  => c.confidence = One

(* the 0.95 record of the example and a record without confidence, scored  *)
(* for a question about medications                                        *)
C17_Witness ==
    /\ pc = "cited"
    /\ question = {"medication"}
    /\ \E r \in Range(context.records) : "confidence" \notin DOMAIN r
    /\ \E i \in DOMAIN citations :
          /\ citations[i].source_id = chroma_id(1)
          /\ ScoredRecord(citations[i]).confidence = 95 * Tick
          /\ citations[i].confidence = One
    /\ \E i \in DOMAIN citations :
          /\ "confidence" \notin DOMAIN ScoredRecord(citations[i])
          /\ citations[i].confidence = 86 * Tick

----------------------------------------------------------------------------
(* Properties of retrieve (Spec) *)

(* C19: every record of the list retrieve returns has a retrieval          *)
(* confidence in [0, 1], whatever distance the vector backend reports.     *)
C19_RetrievalConfidenceInUnitInterval ==
    \A i \in DOMAIN retrieved_records :
        retrieved_records[i].confidence >= 0 /\ retrieved_records[i].confidence <= One

VectorRecords(res) == SelectSeq(res, LAMBDA r : r.search_method = "vector")

PatientFilterRecords(res) == SelectSeq(res, LAMBDA r : r.search_method = "patient_filter")

(* The history row has the patient and the date of a vector record of res *)
MatchesVectorRecord(res, row) ==
    \E i \in DOMAIN res :
        /\ res[i].search_method = "vector"
        /\ res[i].patient_id = row[2]
        /\ res[i].date = row[4]

(* What a patient_filter record built from a history row must carry *)
IsPatientFilterRecordOf(r, row) ==
    /\ r.source_id = <<"sqlite", row[1]>>
    /\ r.patient_id = row[2]
    /\ r.date = row[4]
    /\ r.confidence = 85 * Tick
    /\ r.search_method = "patient_filter"

(* C20 as claimed: with a patient filter, retrieve adds as patient_filter  *)
(* records, with confidence 0.85, exactly those of the first 3 entries of  *)
(* the history whose (patient id, date) matches no vector-search result;   *)
(* with no patient filter it adds none.                                    *)
C20_AddsEveryRowNoVectorHitMatches ==
    (AfterRetriever /\ patient_records.status # "error") =>
        LET top == Prefix(patient_records.rows, 3)
            expected == SelectSeq(top, LAMBDA row : ~MatchesVectorRecord(results, row))
            added == PatientFilterRecords(results)
        IN /\ Len(added) = Len(expected)
           /\ \A i \in DOMAIN added : IsPatientFilterRecordOf(added[i], expected[i])
           /\ patient_id = "" => added = <<>>

(* C20 as amended: with a patient filter, retrieve adds as patient_filter  *)
(* records, with confidence 0.85, exactly those of the first 3 entries of  *)
(* the history whose (patient id, date) matches no vector-search result    *)
(* and no earlier entry among those 3; with no patient filter it adds none. *)
C20_AddsRowsMatchingNoHitAndNoEarlierRow ==
    (AfterRetriever /\ patient_records.status # "error") =>
        LET top == Prefix(patient_records.rows, 3)
            fresh == {k \in DOMAIN top :
                        /\ ~MatchesVectorRecord(results, top[k])
                        /\ \A j \in 1..(k - 1) :
                              ~(top[j][2] = top[k][2] /\ top[j][4] = top[k][4])}
            added == PatientFilterRecords(results)
        IN /\ Len(added) = Cardinality(fresh)
           /\ \A i \in DOMAIN added :
                 \E k \in fresh :
                    /\ Cardinality({j \in fresh : j <= k}) = i
                    /\ IsPatientFilterRecordOf(added[i], top[k])
           /\ patient_id = "" => added = <<>>

(* the first two entries of the history have one date that no vector hit   *)
(* has: the first was added, the second was not, the third was             *)
C20_Witness ==
    /\ AfterRetriever
    /\ patient_id = "P001"
    /\ patient_records.status = "ok"
    /\ VectorRecords(results) # <<>>
    /\ patient_records.rows[1][4] = patient_records.rows[2][4]
    /\ ~MatchesVectorRecord(results, patient_records.rows[2])
    /\ Len(PatientFilterRecords(results)) = 2
    /\ PatientFilterRecords(results)[1].source_id = <<"sqlite", patient_records.rows[1][1]>>
    /\ PatientFilterRecords(results)[2].source_id = <<"sqlite", patient_records.rows[3][1]>>

----------------------------------------------------------------------------
(* Properties of concurrent invocations (ConcurrentSpec) *)

(* The records create_citations is handed when the invocation whose state  *)
(* is st runs alone against backends that do what they did for st          *)
SoloRecords(st) ==
    build_context(retrieve(st.vector_results, st.patient_records,
                           st.patient_id, st.max_sources),
                  route(st.router_generation).category).records

(* The response of that invocation run alone, when it returns one *)
SoloResponse(st) ==
    LET solo_citations == create_citations(st.question, SoloRecords(st)) IN
    [answer      |-> generate_answer(solo_citations, st.generation),
     citations   |-> solo_citations,
     agent_trace |-> [router_decision |-> route(st.router_generation).category,
                      agents_used     |-> Stages]]

(* C18: invocations of query that run concurrently on the one workflow     *)
(* object do not interfere: under every interleaving of their stages, an   *)
(* invocation returns the response it would return run alone against the   *)
(* same backends, and raises only if it would raise run alone.             *)
C18_ConcurrentResponseAsIfAlone ==
    \A r \in DOMAIN requests :
        /\ requests[r].pc = "returned" =>
              /\ ~create_citations_raises(SoloRecords(requests[r]))
              /\ requests[r].response = SoloResponse(requests[r])
        /\ requests[r].pc = "raised" =>
              create_citations_raises(SoloRecords(requests[r]))

(* one invocation has returned an answer with citations while another,     *)
(* routed to another category, is between two of its stages                *)
C18_Witness ==
    /\ requests # <<>>
    /\ requests[1].pc = "returned"
    /\ requests[1].response.citations # <<>>
    /\ requests[1].response.agent_trace.router_decision = "TIMELINE"
    /\ requests[2].pc = "citation"
    /\ requests[2].router_result.category = "GENERAL"
    /\ requests[2].question # requests[1].question

(* C21: with a non-empty patient filter, every vector hit whose metadata    *)
(* patient id differs from the filter is discarded, and every record of    *)
(* the returned list, vector or patient_filter, carries the filter's       *)
(* patient id.                                                             *)
C21_PatientFilterKeepsOnlyThatPatient ==
    (AfterRetriever /\ patient_id # "") =>
        /\ \A i \in DOMAIN retrieved_records :
               retrieved_records[i].patient_id = patient_id
        /\ \A h \in DOMAIN vector_results.hits :
               chroma_metadata(vector_results.hits[h].row).patient_id # patient_id =>
                   \A i \in DOMAIN retrieved_records :
                       retrieved_records[i].source_id # chroma_id(vector_results.hits[h].row)

(* a search filtered to P001 whose backend reported a hit of P002 returned *)
(* vector and patient_filter records                                       *)
C21_Witness ==
    /\ AfterRetriever
    /\ patient_id = "P001"
    /\ vector_results.ok
    /\ \E h \in DOMAIN vector_results.hits :
           chroma_metadata(vector_results.hits[h].row).patient_id = "P002"
    /\ \E i \in DOMAIN retrieved_records : retrieved_records[i].search_method = "vector"
    /\ \E i \in DOMAIN retrieved_records :
           retrieved_records[i].search_method = "patient_filter"

(* C22: for every non-empty list of records and every category, the last  *)
(* key finding names the single patient if and only if all records share   *)
(* one patient id, and otherwise gives the number of distinct patient ids  *)
(* (two records of different ids and the same display name count as two).  *)
C22_PatientFindingCountsPatientIds ==
    (pc = "context_built" /\ retrieved_records # <<>>) =>
        LET ids == {retrieved_records[i].patient_id : i \in DOMAIN retrieved_records}
            last == context.key_findings[Len(context.key_findings)]
        IN IF Cardinality(ids) = 1
           THEN /\ last.label = "All records for patient"
                /\ last.items = {retrieved_records[1].patient_name}
           ELSE /\ last.label = "Records from patient(s)"
                /\ last.n = Cardinality(ids)

(* Values that are no medication and no diagnosis: empty, 'none', 'n/a' *)
ExcludedValues == {"", "none", "None", "NONE", "n/a", "N/A"}

(* The findings of the context with the label *)
FindingsLabelled(label) ==
    SelectSeq(context.key_findings, LAMBDA f : f.label = label)

(* The category has its finding, listing the values, and no other has *)
ListsValues(category, label, values) ==
    /\ context.category = category =>
          /\ Len(FindingsLabelled(label)) = 1
          /\ FindingsLabelled(label)[1].items = values
    /\ context.category # category => FindingsLabelled(label) = <<>>

(* The category has its finding when there are values to list, and no     *)
(* other has                                                              *)
ListsValuesIfAny(category, label, values) ==
    /\ (context.category = category /\ values # {}) =>
          /\ Len(FindingsLabelled(label)) = 1
          /\ FindingsLabelled(label)[1].items = values
    /\ (context.category # category \/ values = {}) => FindingsLabelled(label) = <<>>

OnlyPatientFindingWhenGeneral ==
    context.category \notin {"MEDICATION", "DIAGNOSIS", "TIMELINE", "LAB_RESULTS"} =>
        /\ Len(context.key_findings) = 1
        /\ context.key_findings[1].label
              \in {"All records for patient", "Records from patient(s)"}

(* C23 as stated: for MEDICATION (DIAGNOSIS) the key findings contain one  *)
(* finding listing exactly the distinct medication (diagnosis) values of   *)
(* the records other than the empty value, 'none' and 'n/a'; no such       *)
(* finding for another category; for GENERAL and an unknown category the   *)
(* patient finding is the only one.                                        *)
C23_OneFindingListsDistinctValues ==
    (pc = "context_built" /\ retrieved_records # <<>>) =>
        LET values(field) ==
                {retrieved_records[i][field] : i \in DOMAIN retrieved_records}
                  \ ExcludedValues
        IN /\ ListsValues("MEDICATION", "Medications found", values("medication"))
           /\ ListsValues("DIAGNOSIS", "Diagnoses found", values("diagnosis"))
           /\ OnlyPatientFindingWhenGeneral

(* C23, amended: the values are trimmed of the white space around them     *)
(* before they are compared and listed, and the finding is there only      *)
(* when at least one value is left to list.                                *)
C23_OneFindingListsTrimmedValuesIfAny ==
    (pc = "context_built" /\ retrieved_records # <<>>) =>
        LET values(field) ==
                {strip_value(retrieved_records[i][field]) : i \in DOMAIN retrieved_records}
                  \ ExcludedValues
        IN /\ ListsValuesIfAny("MEDICATION", "Medications found", values("medication"))
           /\ ListsValuesIfAny("DIAGNOSIS", "Diagnoses found", values("diagnosis"))
           /\ OnlyPatientFindingWhenGeneral

(* a MEDICATION context of a record with a medication, one with 'None'     *)
(* and one with a padded 'N/A' lists the one medication                    *)
C23_Witness ==
    /\ pc = "context_built"
    /\ context.category = "MEDICATION"
    /\ {retrieved_records[i].medication : i \in DOMAIN retrieved_records}
          = {"Lisinopril 10mg daily", "None", " N/A "}
    /\ Finding("Medications found", {"Lisinopril 10mg daily"}, "", "", 0)
          \in Range(context.key_findings)

(* The calendar year and month of a date *)
YearOf(date) ==
    CASE date \in {"2024-07-18", "2024-03-10", "20240718"} -> 2024
      [] date = "2023-11-05" -> 2023

MonthOf(date) ==
    CASE date \in {"2024-07-18", "20240718"} -> 7
      [] date = "2024-03-10" -> 3
      [] date = "2023-11-05" -> 11

(* The dates that are a day of the calendar *)
CalendarDates == {"2024-07-18", "2024-03-10", "2023-11-05", "20240718"}

(* C24: the recency term of the confidence is (month / 12) * 0.10, month   *)
(* being the calendar month of the record's date, if the year of the date  *)
(* is 2024, and exactly zero otherwise (stated for a question without key  *)
(* terms, where the confidence is min(1.0, base + recency term)).          *)
C24_RecencyTermFromCalendarMonth ==
    (pc = "scored" /\ question = {} /\ context.records[1].date \in CalendarDates) =>
        LET r == context.records[1]
            base == IF "confidence" \in DOMAIN r THEN r.confidence ELSE 70 * Tick
            recency == IF YearOf(r.date) = 2024
                       THEN (MonthOf(r.date) * 10 * Tick) \div 12 ELSE 0
        IN returned = Min(One, base + recency)

(* The columns of table medical_records, in the order of its rows *)
ColumnNames ==
    <<"id", "patient_id", "patient_name", "date", "record_type",
      "description", "medication", "diagnosis", "lab_result", "doctor">>

Column(row, name) == row[CHOOSE k \in DOMAIN ColumnNames : ColumnNames[k] = name]

(* What a line of the formatted text shows for a column value *)
LineOf(value) == IF value = "" THEN "N/A" ELSE value

(* C29: a patient_filter record carries the medication column of its row   *)
(* as its medication field and the diagnosis column as its diagnosis       *)
(* field, and the 'Description:', 'Diagnosis:' and 'Medication:' lines of  *)
(* its formatted text carry the description, diagnosis and medication      *)
(* columns of that row.                                                    *)
C29_PatientFilterFieldsAreTheirColumns ==
    AfterRetriever =>
        \A i \in DOMAIN retrieved_records :
            retrieved_records[i].search_method = "patient_filter" =>
                LET r == retrieved_records[i]
                    row == medical_records[r.source_id[2]]
                IN /\ r.medication = Column(row, "medication")
                   /\ r.diagnosis = Column(row, "diagnosis")
                   /\ r.text.Description = LineOf(Column(row, "description"))
                   /\ r.text.Diagnosis = LineOf(Column(row, "diagnosis"))
                   /\ r.text.Medication = LineOf(Column(row, "medication"))

(* The fixed keywords of the snippet *)
Keywords ==
    { <<"m","e","d","i","c","a","t","i","o","n">>,
      <<"d","i","a","g","n","o","s","i","s">>,
      <<"l","a","b">>,
      <<"r","e","s","u","l","t">>,
      <<"t","e","s","t">>,
      <<"p","r","e","s","c","r","i","b","e","d">>,
      <<"t","r","e","a","t","m","e","n","t">>,
      <<"c","o","n","d","i","t","i","o","n">>,
      <<"v","i","s","i","t">> }

(* The smallest element of a non-empty set of numbers *)
Least(S) == CHOOSE x \in S : \A y \in S : x <= y

(* C25: a sentence of the text is relevant iff some keyword of the fixed   *)
(* set occurs both in the lowercased question and in the lowercased        *)
(* sentence; the snippet is the first two relevant sentences (or the only  *)
(* one) joined; if there is none it is the substring that the label        *)
(* 'Description:' introduces, up to the end of its line, when the text has *)
(* one, and the first 200 characters of the text otherwise.                *)
C25_SnippetOfRelevantSentences ==
    pc = "snipped" =>
        LET text == context.records[1].text
            sentences == re_split(text)
            relevant == {i \in DOMAIN sentences :
                            \E word \in Keywords :
                                /\ contains(lower_text(question), word)
                                /\ contains(lower_text(sentences[i]), word)}
            others == relevant \ {Least(relevant)}
            labels == {p \in 1..(Len(text) - Len(DescriptionLabel) + 1) :
                          SubSeq(text, p, p + Len(DescriptionLabel) - 1) = DescriptionLabel}
            after == Least(labels) + Len(DescriptionLabel)
            inked == {i \in after..Len(text) : text[i] \notin Whitespace}
            line_end == Least({i \in Least(inked)..Len(text) :
                                  i = Len(text) \/ text[i + 1] = "\n"})
        IN IF relevant # {}
           THEN returned =
                    IF others = {} THEN strip(sentences[Least(relevant)])
                    ELSE strip(sentences[Least(relevant)]) \o <<".", " ">>
                           \o strip(sentences[Least(others)])
           ELSE IF labels # {} /\ inked # {}
                THEN returned = strip(SubSeq(text, Least(inked), line_end))
                ELSE IF labels # {} /\ \E i \in after..Len(text) : text[i] # "\n"
                     THEN returned = <<>>
                     ELSE returned = Prefix(text, 200)

(* of four sentences three hold a keyword of the question about visits and *)
(* tests; the snippet is the first two of them                             *)
C25_Witness ==
    /\ pc = "snipped"
    /\ context.records[1].text = <<"L","a","b"," ","o","k","."," ","V","i","s","i","t"," ","1","!"," ","T","e","s","t"," ","b","?"," ","L","a","b"," ","c">>
    /\ question = <<"A","n","y"," ","v","i","s","i","t"," ","o","r"," ","t","e","s","t","?">>
    /\ returned = <<"V","i","s","i","t"," ","1","."," ","T","e","s","t"," ","b">>

(* s begins with the phrase *)
StartsWith(s, phrase) ==
    Len(s) >= Len(phrase) /\ SubSeq(s, 1, Len(phrase)) = phrase

(* the phrase occurs somewhere in s *)
Occurs(s, phrase) ==
    \E p \in 1..(Len(s) - Len(phrase) + 1) : SubSeq(s, p, p + Len(phrase) - 1) = phrase

(* The text with the artifact phrases that lead it taken off, trimmed *)
RECURSIVE WithoutLeadingArtifacts(_)
WithoutLeadingArtifacts(s) ==
    LET t == strip(s) IN
    IF StartsWith(t, ArtifactAnswer)
    THEN WithoutLeadingArtifacts(SubSeq(t, Len(ArtifactAnswer) + 1, Len(t)))
    ELSE IF StartsWith(t, ArtifactEvidence)
         THEN WithoutLeadingArtifacts(SubSeq(t, Len(ArtifactEvidence) + 1, Len(t)))
         ELSE t

Capitalized(s) == IF s # <<>> THEN <<upper(s[1])>> \o Tail(s) ELSE s

(* C26: the artifact phrases 'Answer:' and 'Based on the evidence:' are    *)
(* removed only where they lead the text, an occurrence in the middle is   *)
(* left in place, and the rest of the text is unchanged apart from         *)
(* trimming and the capital first letter (stated for the texts that end in *)
(* a terminal mark, which are never cut).                                  *)
C26_OnlyLeadingArtifactsRemoved ==
    (pc = "cleaned" /\ strip(generation.text) # <<>>
       /\ strip(generation.text)[Len(strip(generation.text))] \in Terminal) =>
        returned = Capitalized(WithoutLeadingArtifacts(generation.text))

(* A text that cleaning leaves as it is, up to the cut of its tail: it is  *)
(* trimmed, holds no artifact phrase and does not begin in lowercase       *)
NeedsNoCleaning(t) ==
    /\ t # <<>>
    /\ strip(t) = t
    /\ ~Occurs(t, ArtifactAnswer)
    /\ ~Occurs(t, ArtifactEvidence)
    /\ ~islower(t[1])

(* C27: a text that does not end in '.', '!' or '?' is cut just after its  *)
(* last such mark if and only if the kept prefix is at least half of it    *)
(* (kept length * 2 >= length); otherwise, and when it has no such mark,   *)
(* it is returned uncut.                                                   *)
C27_CutIffKeptPrefixAtLeastHalf ==
    (pc = "cleaned" /\ NeedsNoCleaning(generation.text)
       /\ generation.text[Len(generation.text)] \notin Terminal) =>
        LET t == generation.text
            kept == last_period(t) + 1
        IN returned = IF kept > 0 /\ kept * 2 >= Len(t) THEN SubSeq(t, 1, kept) ELSE t

(* C28: once the answer stage has completed, the final answer is a         *)
(* non-empty string, whatever the generation call returned or raised.      *)
C28_FinalAnswerNonEmpty ==
    AfterAnswer => final_answer # <<>>

(* C30: _clean_answer is idempotent, and a cleaned text does not start     *)
(* with an artifact phrase that a second pass would remove.                *)
C30_CleanAnswerIdempotent ==
    /\ pc = "cleaned_again" => final_answer = returned
    /\ pc \in {"cleaned", "cleaned_again"} =>
          /\ ~StartsWith(returned, ArtifactAnswer)
          /\ ~StartsWith(returned, ArtifactEvidence)

====
